---- MODULE Spec2Model ----
(***************************************************************************)
(* Model of the brewrec replay engine: execution-plan building             *)
(* (src/src/core/execution-plan.ts), template resolution                   *)
(* (src/src/core/keychain.ts, second half), step validation                *)
(* (src/unnamed/part_009) and the run command with its plain and           *)
(* self-healing runners (src/src/commands/run.ts).                         *)
(*                                                                         *)
(* Strings are tuples of one-character strings, so that formatting,        *)
(* matching and parsing are computed and not assumed.  An optional value   *)
(* (JavaScript undefined) is the empty tuple None, a present value v is    *)
(* Some(v) = <<v>>.  A JavaScript object map is a function whose DOMAIN    *)
(* is the set of its keys.                                                 *)
(***************************************************************************)
EXTENDS Integers, Sequences, FiniteSets, TLC

\* ------------------------------------------------------------------------
\* Bounds of the model
\* ------------------------------------------------------------------------
\* longest variable declaration list of a recipe
MaxVars == 2
\* longest step list of a recipe
MaxSteps == 2
\* longest list of steps produced by one Phase-2 re-capture
MaxCapture == 2

\* ------------------------------------------------------------------------
\* Options and small helpers
\* ------------------------------------------------------------------------
None == <<>>
Some(v) == <<v>>
IsSome(o) == o # <<>>
Val(o) == o[1]

\* binds a value to a name: LET with the value computed once
With(v, F(_)) == F(v)

EmptyMap == [x \in {} |-> <<>>]
MapPut(m, k, v) == [x \in (DOMAIN m) \cup {k} |-> IF x = k THEN v ELSE m[x]]

Range(s) == {s[i] : i \in 1..Len(s)}

\* ------------------------------------------------------------------------
\* Strings
\* ------------------------------------------------------------------------
Digits == <<"0", "1", "2", "3", "4", "5", "6", "7", "8", "9">>
IsDigit(c) == c \in Range(Digits)
DigitChar(n) == Digits[n + 1]
DigitVal(c) == (CHOOSE i \in 1..10 : Digits[i] = c) - 1

\* String.prototype.startsWith
StartsWith(s, p) == Len(p) <= Len(s) /\ SubSeq(s, 1, Len(p)) = p

\* String.prototype.trim over the one whitespace character of the model
RECURSIVE TrimLeft(_)
TrimLeft(s) == IF s # <<>> /\ Head(s) = " " THEN TrimLeft(Tail(s)) ELSE s
RECURSIVE TrimRight(_)
TrimRight(s) ==
  IF s # <<>> /\ s[Len(s)] = " " THEN TrimRight(SubSeq(s, 1, Len(s) - 1)) ELSE s
Trim(s) == TrimRight(TrimLeft(s))

\* Collation rank of a character: localeCompare orders digits before
\* lower-case letters and letters alphabetically.
Alphabet ==
  <<" ", "-", "/", "+", "0", "1", "2", "3", "4", "5", "6", "7", "8", "9",
    "a", "b", "c", "d", "e", "f", "g", "h", "i", "j", "k", "l", "m", "n",
    "o", "p", "q", "r", "s", "t", "u", "v", "w", "x", "y", "z">>
CharRank(c) ==
  IF c \in Range(Alphabet) THEN CHOOSE i \in 1..Len(Alphabet) : Alphabet[i] = c ELSE 0

\* a.localeCompare(b) <= 0
RECURSIVE StrLeq(_, _)
StrLeq(a, b) ==
  IF a = <<>> THEN TRUE
  ELSE IF b = <<>> THEN FALSE
  ELSE IF Head(a) = Head(b) THEN StrLeq(Tail(a), Tail(b))
  ELSE CharRank(Head(a)) < CharRank(Head(b))

\* Array.prototype.sort((a, b) => a.localeCompare(b)): insertion into a
\* sorted prefix, stable.
RECURSIVE InsertSorted(_, _)
InsertSorted(sorted, x) ==
  IF sorted = <<>> THEN <<x>>
  ELSE IF StrLeq(Head(sorted), x) THEN <<Head(sorted)>> \o InsertSorted(Tail(sorted), x)
  ELSE <<x>> \o sorted
RECURSIVE SortStrings(_)
SortStrings(s) ==
  IF s = <<>> THEN <<>>
  ELSE InsertSorted(SortStrings(SubSeq(s, 1, Len(s) - 1)), s[Len(s)])

\* Set.prototype.add on an insertion-ordered set
SetAdd(s, x) == IF x \in Range(s) THEN s ELSE Append(s, x)
RECURSIVE SetAddAll(_, _)
SetAddAll(s, xs) == IF xs = <<>> THEN s ELSE SetAddAll(SetAdd(s, Head(xs)), Tail(xs))

\* ------------------------------------------------------------------------
\* Template resolver (src/src/core/keychain.ts, template-vars part)
\* ------------------------------------------------------------------------
IsBrace(c) == c = "{" \/ c = "}"

\* first index >= i of s holding a brace, 0 when there is none
RECURSIVE NextBrace(_, _)
NextBrace(s, i) ==
  IF i > Len(s) THEN 0 ELSE IF IsBrace(s[i]) THEN i ELSE NextBrace(s, i + 1)

\* TEMPLATE_PATTERN = /{{\s*([^{}]+?)\s*}}/g tried at index i: the index of
\* the closing brace pair's last character, 0 when the pattern does not
\* match at i.  Between the brace pairs lies a non-empty brace-free run.
TemplateMatchEnd(s, i) ==
  IF i + 1 <= Len(s) /\ s[i] = "{" /\ s[i + 1] = "{"
  THEN With(NextBrace(s, i + 2), LAMBDA j :
         IF j > i + 2 /\ j + 1 <= Len(s) /\ s[j] = "}" /\ s[j + 1] = "}"
         THEN j + 1 ELSE 0)
  ELSE 0

\* value.matchAll(TEMPLATE_PATTERN): the matches from index i on, each with
\* its first index, last index and trimmed capture group
RECURSIVE TemplateMatches(_, _)
TemplateMatches(s, i) ==
  IF i > Len(s) THEN <<>>
  ELSE With(TemplateMatchEnd(s, i), LAMBDA e :
         IF e = 0 THEN TemplateMatches(s, i + 1)
         ELSE <<[from |-> i, to |-> e, token |-> Trim(SubSeq(s, i + 2, e - 2))]>>
              \o TemplateMatches(s, e + 1))

\* listTemplateTokens: the distinct tokens of a string in order of appearance
listTemplateTokens(value) ==
  With(TemplateMatches(value, 1), LAMBDA ms :
    SetAddAll(<<>>, [k \in 1..Len(ms) |-> ms[k].token]))

\* The context time of the model: 2026-02-26T08:00:00.000Z
NowDate == [valid |-> TRUE, y |-> 2026, m |-> 2, d |-> 26]
NowIso ==
  <<"2", "0", "2", "6", "-", "0", "2", "-", "2", "6", "T", "0", "8", ":",
    "0", "0", ":", "0", "0", ".", "0", "0", "0", "Z">>

\* The day number of a civil date, counted from 1970-01-01, and the civil
\* date of a day number (proleptic Gregorian calendar, as Date keeps it)
DaysFromCivil(dt) ==
  With(IF dt.m <= 2 THEN dt.y - 1 ELSE dt.y, LAMBDA y :
  With(y \div 400, LAMBDA era :
  With((153 * (IF dt.m > 2 THEN dt.m - 3 ELSE dt.m + 9) + 2) \div 5 + dt.d - 1, LAMBDA doy :
  With(y - era * 400, LAMBDA yoe :
    era * 146097 + yoe * 365 + yoe \div 4 - yoe \div 100 + doy - 719468))))

CivilOfEra(era, yoe, doy) ==
  With((5 * doy + 2) \div 153, LAMBDA mp :
  With(IF mp < 10 THEN mp + 3 ELSE mp - 9, LAMBDA m :
    [valid |-> TRUE,
     y |-> yoe + era * 400 + (IF m <= 2 THEN 1 ELSE 0),
     m |-> m,
     d |-> doy - (153 * mp + 2) \div 5 + 1]))

CivilFromDays(z) ==
  With((z + 719468) \div 146097, LAMBDA era :
  With(z + 719468 - era * 146097, LAMBDA doe :
  With((doe - doe \div 1460 + doe \div 36524 - doe \div 146096) \div 365, LAMBDA yoe :
    CivilOfEra(era, yoe, doe - (365 * yoe + yoe \div 4 - yoe \div 100)))))

\* A Date holds a time within 100,000,000 days of 1970-01-01; a time set
\* outside is the invalid Date, whose fields are NaN.
MaxDateDays == 100000000
InvalidDate == [valid |-> FALSE, y |-> 0, m |-> 0, d |-> 0]

\* String(n) of an integer; String(NaN) is "NaN"
NaNStr == <<"N", "a", "N">>
RECURSIVE DecStr(_)
DecStr(n) ==
  IF n < 0 THEN <<"-">> \o DecStr(0 - n)
  ELSE IF n < 10 THEN <<DigitChar(n)>>
  ELSE DecStr(n \div 10) \o <<DigitChar(n % 10)>>

\* pad: String(value).padStart(2, "0")
pad(n) == IF n < 10 THEN <<"0">> \o DecStr(n) ELSE DecStr(n)

\* formatDate: the year as String prints it, the month and the day padded
\* to two characters
formatDate(dt) ==
  IF ~dt.valid THEN NaNStr \o <<"-">> \o NaNStr \o <<"-">> \o NaNStr
  ELSE DecStr(dt.y) \o <<"-">> \o pad(dt.m) \o <<"-">> \o pad(dt.d)

RECURSIVE ParseNat(_, _)
ParseNat(s, acc) ==
  IF s = <<>> THEN acc ELSE ParseNat(Tail(s), acc * 10 + DigitVal(Head(s)))

RECURSIVE StripZeros(_)
StripZeros(s) == IF s # <<>> /\ Head(s) = "0" THEN StripZeros(Tail(s)) ELSE s

\* Number(digits) of a digit string: Infinity from 310 significant digits
\* on (a number of 309 digits is Infinity above 1.797e308; the model holds
\* none), a number beyond every Date from 10 significant digits on, else
\* the number itself
MaxFiniteDigits == 309
MaxDayDigits == 9
NumberOf(digits) ==
  With(StripZeros(digits), LAMBDA sig :
    [finite |-> Len(sig) <= MaxFiniteDigits,
     small |-> Len(sig) <= MaxDayDigits,
     n |-> IF Len(sig) <= MaxDayDigits THEN ParseNat(sig, 0) ELSE 0])

TodayWord == <<"t", "o", "d", "a", "y">>
NowWord == <<"n", "o", "w">>

\* TODAY_PATTERN = /^today([+-]\d+d)?$/ : None when the token does not
\* match, Some(<<>>) for a bare today, Some(offset) for today+Nd / today-Nd
TodayMatch(token) ==
  IF token = TodayWord THEN Some(<<>>)
  ELSE IF /\ StartsWith(token, TodayWord)
          /\ Len(token) >= 8
          /\ token[6] \in {"+", "-"}
          /\ token[Len(token)] = "d"
          /\ \A i \in 7..(Len(token) - 1) : IsDigit(token[i])
       THEN Some(SubSeq(token, 6, Len(token)))
       ELSE None

\* date.setDate(date.getDate() + delta)
SetDate(base, delta) ==
  With(DaysFromCivil(base) + delta, LAMBDA z :
    IF z > MaxDateDays \/ z < 0 - MaxDateDays THEN InvalidDate ELSE CivilFromDays(z))

OkDate(dt) == [ok |-> TRUE, date |-> dt, rawOffset |-> <<>>]
ErrDate(rawOffset) == [ok |-> FALSE, date |-> InvalidDate, rawOffset |-> rawOffset]

\* applyDayOffsetResult: the base without offset, invalid_day_offset for an
\* offset that is no finite number, else the base moved by the offset
applyDayOffsetResult(base, rawOffset) ==
  IF rawOffset = <<>> THEN OkDate(base)
  ELSE With(NumberOf(SubSeq(rawOffset, 2, Len(rawOffset) - 1)), LAMBDA numeric :
         IF ~numeric.finite THEN ErrDate(rawOffset)
         ELSE IF ~numeric.small THEN OkDate(InvalidDate)
         ELSE OkDate(SetDate(base, (IF Head(rawOffset) = "-" THEN -1 ELSE 1) * numeric.n)))

TplOk(v) == [ok |-> TRUE, value |-> v, kind |-> "", token |-> <<>>]
TplErr(k, t) == [ok |-> FALSE, value |-> <<>>, kind |-> k, token |-> t]

\* resolveTokenResult: supplied vars first, then now, then today[+-Nd]
resolveTokenResult(token, vars) ==
  IF token \in DOMAIN vars THEN TplOk(vars[token])
  ELSE IF token = NowWord THEN TplOk(NowIso)
  ELSE With(TodayMatch(token), LAMBDA tm :
         IF tm = None THEN TplErr("unknown_template_variable", token)
         ELSE With(applyDayOffsetResult(NowDate, tm[1]), LAMBDA r :
                IF r.ok THEN TplOk(formatDate(r.date))
                ELSE TplErr("invalid_day_offset", r.rawOffset)))

\* isBuiltinTemplateToken
isBuiltinTemplateToken(token) == token = NowWord \/ TodayMatch(token) # None

\* the loop of resolveTemplateStringResult over the matches from the k-th
\* on: the first token failure, or the text from lastIndex on with every
\* match replaced
RECURSIVE ResolveMatches(_, _, _, _, _)
ResolveMatches(value, ms, k, lastIndex, vars) ==
  IF k > Len(ms) THEN TplOk(SubSeq(value, lastIndex, Len(value)))
  ELSE With(resolveTokenResult(ms[k].token, vars), LAMBDA tok :
         IF ~tok.ok THEN tok
         ELSE With(ResolveMatches(value, ms, k + 1, ms[k].to + 1, vars), LAMBDA rest :
                IF ~rest.ok THEN rest
                ELSE TplOk(SubSeq(value, lastIndex, ms[k].from - 1)
                           \o tok.value \o rest.value)))

\* a resolver that substitutes the first match only
resolveFirstMatchOnly(value, vars) ==
  With(TemplateMatches(value, 1), LAMBDA ms :
    ResolveMatches(value, IF ms = <<>> THEN ms ELSE <<ms[1]>>, 1, 1, vars))

\* resolveTemplateStringResult
resolveTemplateStringResult(value, vars) ==
  With(TemplateMatches(value, 1), LAMBDA ms : ResolveMatches(value, ms, 1, 1, vars))

\* item.indexOf("="): the 0-based index, -1 when there is none
RECURSIVE IndexOfEq(_, _)
IndexOfEq(item, i) ==
  IF i > Len(item) THEN -1 ELSE IF item[i] = "=" THEN i - 1 ELSE IndexOfEq(item, i + 1)

\* one iteration of parseCliVariablesResult: the error kind, or the map
\* with the item's key set
ParseCliItem(item, index, vars) ==
  IF index <= 0 \/ index = Len(item) - 1
  THEN [ok |-> FALSE, vars |-> vars, kind |-> "invalid_cli_var_format"]
  ELSE IF Trim(SubSeq(item, 1, index)) = <<>>
  THEN [ok |-> FALSE, vars |-> vars, kind |-> "invalid_cli_var_key"]
  ELSE [ok |-> TRUE, kind |-> "",
        vars |-> MapPut(vars, Trim(SubSeq(item, 1, index)),
                        SubSeq(item, index + 2, Len(item)))]

\* the loop of parseCliVariablesResult over the items left
RECURSIVE ParseCliItems(_, _)
ParseCliItems(raw, acc) ==
  IF raw = <<>> \/ ~acc.ok THEN acc
  ELSE ParseCliItems(Tail(raw), ParseCliItem(Head(raw), IndexOfEq(Head(raw), 1), acc.vars))

\* parseCliVariablesResult
parseCliVariablesResult(raw) ==
  ParseCliItems(raw, [ok |-> TRUE, vars |-> EmptyMap, kind |-> ""])

\* ------------------------------------------------------------------------
\* Recipe steps and their template resolution
\* (src/src/types.ts, src/src/core/keychain.ts)
\* ------------------------------------------------------------------------
\* A RecipeStep.  url, value and key are optional; an absent selectorVariants,
\* guards or effects list is the empty list, as every reader of the code
\* takes it (step.selectorVariants ?? []).
MkStep(id, mode, action, url, selectors, value, key, guards, effects) ==
  [id |-> id, mode |-> mode, action |-> action, url |-> url,
   selectorVariants |-> selectors, value |-> value, key |-> key,
   guards |-> guards, effects |-> effects]

Check(type, value) == [type |-> type, value |-> value]

\* the template strings of a step in the order the resolver visits them:
\* url, value, selectors, guard values, effect values
StepStrings(step) ==
  (IF step.url # None /\ step.url[1] # <<>> THEN <<step.url[1]>> ELSE <<>>)
  \o (IF step.value # None THEN <<step.value[1]>> ELSE <<>>)
  \o step.selectorVariants
  \o [i \in 1..Len(step.guards) |-> step.guards[i].value]
  \o [i \in 1..Len(step.effects) |-> step.effects[i].value]

\* the step with its template strings replaced by xs, in StepStrings' order
WithStepStrings(step, xs) ==
  With(IF step.url # None /\ step.url[1] # <<>> THEN 1 ELSE 0, LAMBDA nu :
  With(nu + (IF step.value # None THEN 1 ELSE 0), LAMBDA nv :
  With(nv + Len(step.selectorVariants), LAMBDA ns :
  With(ns + Len(step.guards), LAMBDA ng :
    [step EXCEPT
       !.url = IF nu = 1 THEN Some(xs[1]) ELSE step.url,
       !.value = IF nv > nu THEN Some(xs[nv]) ELSE step.value,
       !.selectorVariants = [i \in 1..Len(step.selectorVariants) |-> xs[nv + i]],
       !.guards = [i \in 1..Len(step.guards) |-> Check(step.guards[i].type, xs[ns + i])],
       !.effects = [i \in 1..Len(step.effects) |->
                      Check(step.effects[i].type, xs[ng + i])]]))))

\* resolves every string of a list, stopping at the first failure
RECURSIVE ResolveList(_, _)
ResolveList(xs, vars) ==
  IF xs = <<>> THEN [ok |-> TRUE, value |-> <<>>, kind |-> "", token |-> <<>>]
  ELSE With(resolveTemplateStringResult(Head(xs), vars), LAMBDA h :
         IF ~h.ok THEN h
         ELSE With(ResolveList(Tail(xs), vars), LAMBDA t :
                IF ~t.ok THEN t ELSE [t EXCEPT !.value = <<h.value>> \o t.value]))

\* resolveRecipeStepTemplatesResult: url (when non-empty), value (when
\* defined), every selector, every guard value, every effect value; the
\* first failure aborts
resolveRecipeStepTemplatesResult(step, vars) ==
  With(ResolveList(StepStrings(step), vars), LAMBDA r :
    IF ~r.ok THEN [ok |-> FALSE, step |-> step, kind |-> r.kind, token |-> r.token]
    ELSE [ok |-> TRUE, step |-> WithStepStrings(step, r.value),
          kind |-> "", token |-> <<>>])

\* the distinct tokens of a list of strings, in order of appearance
RECURSIVE CollectTokens(_, _)
CollectTokens(acc, xs) ==
  IF xs = <<>> THEN acc
  ELSE CollectTokens(SetAddAll(acc, listTemplateTokens(Head(xs))), Tail(xs))

\* collectStepTemplateTokens: distinct tokens of url, value, selectors,
\* guard values and effect values, in that order
collectStepTemplateTokens(step) == CollectTokens(<<>>, StepStrings(step))

\* ------------------------------------------------------------------------
\* Execution plan builder (src/src/core/execution-plan.ts)
\* ------------------------------------------------------------------------
\* A RecipeVariable.  pattern is None or Some of a regular expression of
\* PatternDigits' kind; resolver.type is cli, builtin, secret or prompted.
MkVar(name, type, required, defaultValue, pattern, resolver) ==
  [name |-> name, type |-> type, required |-> required,
   defaultValue |-> defaultValue, pattern |-> pattern, resolver |-> resolver]

MkResolver(type, key, expr, promptTemplate) ==
  [type |-> type, key |-> key, expr |-> expr, promptTemplate |-> promptTemplate]

\* a date test that only counts the characters
isDateValueByLength(value) == Len(value) = 10

\* isDateValue: /^\d{4}-\d{2}-\d{2}$/
isDateValue(value) ==
  /\ Len(value) = 10
  /\ \A i \in {1, 2, 3, 4, 6, 7, 9, 10} : IsDigit(value[i])
  /\ value[5] = "-"
  /\ value[8] = "-"

\* the one regular expression recipes of the model carry: ^\d+$
PatternDigits == <<"^", "\\", "d", "+", "$">>
PatternTest(pattern, value) ==
  IF pattern = PatternDigits
  THEN value # <<>> /\ \A i \in 1..Len(value) : IsDigit(value[i])
  ELSE TRUE

\* a BuildExecutionPlanError; for variable_validation_failed, phase tells
\* the message (date format or pattern)
PlanError(kind, phase, variableName, stepId) ==
  [kind |-> kind, phase |-> phase, variableName |-> variableName, stepId |-> stepId]

\* validateResolvedVariableResult: None when valid, Some(error) otherwise
validateResolvedVariableResult(variable, value) ==
  IF variable.type = "date" /\ ~isDateValue(value)
  THEN Some(PlanError("variable_validation_failed", "date", variable.name, <<>>))
  ELSE IF variable.pattern # None /\ ~PatternTest(variable.pattern[1], value)
  THEN Some(PlanError("variable_validation_failed", "pattern", variable.name, <<>>))
  ELSE None

\* output.split(/\r?\n/)
RECURSIVE SplitLines(_, _)
SplitLines(s, cur) ==
  IF s = <<>> THEN <<cur>>
  ELSE IF Head(s) = "\n" THEN <<cur>> \o SplitLines(Tail(s), <<>>)
  ELSE SplitLines(Tail(s), Append(cur, Head(s)))

\* the first non-empty string of a list, "" when there is none
RECURSIVE FirstNonEmpty(_)
FirstNonEmpty(xs) ==
  IF xs = <<>> THEN <<>>
  ELSE IF Head(xs) # <<>> THEN Head(xs) ELSE FirstNonEmpty(Tail(xs))

\* pickPromptValue: the first non-empty trimmed line, "" when there is none
pickPromptValue(output) ==
  With(SplitLines(output, <<>>), LAMBDA lines :
    FirstNonEmpty([i \in 1..Len(lines) |-> Trim(lines[i])]))

\* a call of a collaborator: its argument and what the collaborator did
Called(fn, name, arg, outcome) ==
  [fn |-> fn, name |-> name, arg |-> arg, outcome |-> outcome]

ResolveOk(v, cs) == [ok |-> TRUE, value |-> v, error |-> None, calls |-> cs]
ResolveErr(e, cs) == [ok |-> FALSE, value |-> None, error |-> Some(e), calls |-> cs]
Lookup(m, k) == IF k \in DOMAIN m THEN Some(m[k]) ELSE None
NonEmptyOpt(v) == IF v = <<>> THEN None ELSE Some(v)

\* resolveVariableBySpecResult.  env.secret is what the secret loader does
\* when called, env.prompt what the prompt runner does.  The result carries
\* the collaborator calls that were made.
resolveVariableBySpecResult(variable, resolvedVars, env) ==
  IF variable.resolver.type = "cli"
  THEN IF variable.resolver.key # None /\ variable.resolver.key[1] # <<>>
       THEN ResolveOk(Lookup(resolvedVars, variable.resolver.key[1]), <<>>)
       ELSE ResolveOk(Lookup(resolvedVars, variable.name), <<>>)
  ELSE IF variable.resolver.type = "builtin"
  THEN With(resolveTemplateStringResult(
              <<"{", "{">> \o variable.resolver.expr \o <<"}", "}">>, resolvedVars),
            LAMBDA b :
         IF ~b.ok
         THEN ResolveErr(PlanError("template_error", "resolver_builtin",
                                   variable.name, <<>>), <<>>)
         ELSE ResolveOk(Some(b.value), <<>>))
  ELSE IF variable.resolver.type = "secret"
  THEN With(<<Called("secretLoader", variable.name, <<>>, env.secret.kind)>>, LAMBDA call :
         IF env.secret.kind = "store_error"
         THEN ResolveErr(PlanError("secret_store_error", "secret_loader",
                                   variable.name, <<>>), call)
         ELSE IF env.secret.kind = "throw"
         THEN ResolveErr(PlanError("unexpected_error", "secret_loader",
                                   variable.name, <<>>), call)
         ELSE IF env.secret.kind = "absent" THEN ResolveOk(None, call)
         ELSE ResolveOk(Some(env.secret.value), call))
  ELSE With(resolveTemplateStringResult(variable.resolver.promptTemplate, resolvedVars),
            LAMBDA p :
         IF ~p.ok
         THEN ResolveErr(PlanError("template_error", "resolver_prompt",
                                   variable.name, <<>>), <<>>)
         ELSE With(<<Called("promptRunner", variable.name, p.value, env.prompt.kind)>>, LAMBDA call :
                IF env.prompt.kind = "throw"
                THEN ResolveErr(PlanError("unexpected_error", "prompt_runner",
                                          variable.name, <<>>), call)
                ELSE ResolveOk(NonEmptyOpt(pickPromptValue(env.prompt.value)), call)))

WarnUnresolved(name) == [text |-> "Required variable is unresolved: ", name |-> name]

IterOut(fatal, rv, un, w, cs) ==
  [fatal |-> fatal, resolvedVars |-> rv, unresolved |-> un, warnings |-> w, calls |-> cs]

\* resolvedResult.value ?? variable.defaultValue
FinalValue(resolved, variable) == IF resolved # None THEN resolved ELSE variable.defaultValue

\* lines 282-293: record the final value after validating it, or mark a
\* required variable unresolved
RecordFinalValue(variable, finalValue, resolvedVars, unresolved, warnings, cs) ==
  IF finalValue # None
  THEN With(validateResolvedVariableResult(variable, finalValue[1]), LAMBDA v :
         IF v # None THEN IterOut(v, resolvedVars, unresolved, warnings, cs)
         ELSE IterOut(None, MapPut(resolvedVars, variable.name, finalValue[1]),
                      unresolved, warnings, cs))
  ELSE IF variable.required
  THEN IterOut(None, resolvedVars, SetAdd(unresolved, variable.name),
               Append(warnings, WarnUnresolved(variable.name)), cs)
  ELSE IterOut(None, resolvedVars, unresolved, warnings, cs)

\* an iteration that runs the resolver whatever is already resolved
ResolveIterationResolverFirst(variable, resolvedVars, unresolved, warnings, env) ==
  With(resolveVariableBySpecResult(variable, resolvedVars, env), LAMBDA r :
    IF ~r.ok THEN IterOut(r.error, resolvedVars, unresolved, warnings, r.calls)
    ELSE RecordFinalValue(variable, FinalValue(r.value, variable),
                          resolvedVars, unresolved, warnings, r.calls))

\* One iteration of the loop over recipe.variables (lines 265-294): what it
\* leaves in resolvedVars, unresolvedVars and warnings, the fatal error it
\* returns if any, and the collaborator calls it made.
ResolveIteration(variable, resolvedVars, unresolved, warnings, env) ==
  IF variable.name \in DOMAIN resolvedVars
  THEN IterOut(validateResolvedVariableResult(variable, resolvedVars[variable.name]),
               resolvedVars, unresolved, warnings, <<>>)
  ELSE With(resolveVariableBySpecResult(variable, resolvedVars, env), LAMBDA r :
         IF ~r.ok THEN IterOut(r.error, resolvedVars, unresolved, warnings, r.calls)
         ELSE RecordFinalValue(variable, FinalValue(r.value, variable),
                               resolvedVars, unresolved, warnings, r.calls))

\* a saving loop that offers every resolved variable to the saver
SaveSecretIterationAnyResolver(variable, resolvedVars, env) ==
  IF variable.name \in DOMAIN resolvedVars
  THEN [fatal |-> IF env.kind = "store_error"
                  THEN Some(PlanError("secret_store_error", "secret_saver",
                                      variable.name, <<>>))
                  ELSE IF env.kind = "throw"
                  THEN Some(PlanError("unexpected_error", "secret_saver",
                                      variable.name, <<>>))
                  ELSE None,
        calls |-> <<Called("secretSaver", variable.name, resolvedVars[variable.name],
                           env.kind)>>]
  ELSE [fatal |-> None, calls |-> <<>>]

\* a saving loop that goes on after a store error
SaveSecretIterationLenient(variable, resolvedVars, env) ==
  IF variable.resolver.type = "secret" /\ variable.name \in DOMAIN resolvedVars
  THEN [fatal |-> IF env.kind = "throw"
                  THEN Some(PlanError("unexpected_error", "secret_saver",
                                      variable.name, <<>>))
                  ELSE None,
        calls |-> <<Called("secretSaver", variable.name, resolvedVars[variable.name],
                           env.kind)>>]
  ELSE [fatal |-> None, calls |-> <<>>]

\* One iteration of the secret-saving loop (lines 296-319)
SaveSecretIteration(variable, resolvedVars, env) ==
  IF variable.resolver.type = "secret" /\ variable.name \in DOMAIN resolvedVars
  THEN [fatal |-> IF env.kind = "store_error"
                  THEN Some(PlanError("secret_store_error", "secret_saver",
                                      variable.name, <<>>))
                  ELSE IF env.kind = "throw"
                  THEN Some(PlanError("unexpected_error", "secret_saver",
                                      variable.name, <<>>))
                  ELSE None,
        calls |-> <<Called("secretSaver", variable.name, resolvedVars[variable.name],
                           env.kind)>>]
  ELSE [fatal |-> None, calls |-> <<>>]

\* the scan of every step for tokens neither resolved nor builtin
\* (lines 321-327)
RECURSIVE ScanTokens(_, _, _)
ScanTokens(tokens, resolvedVars, unresolved) ==
  IF tokens = <<>> THEN unresolved
  ELSE IF Head(tokens) \in DOMAIN resolvedVars \/ isBuiltinTemplateToken(Head(tokens))
  THEN ScanTokens(Tail(tokens), resolvedVars, unresolved)
  ELSE ScanTokens(Tail(tokens), resolvedVars, SetAdd(unresolved, Head(tokens)))

RECURSIVE ScanSteps(_, _, _)
ScanSteps(steps, resolvedVars, unresolved) ==
  IF steps = <<>> THEN unresolved
  ELSE ScanSteps(Tail(steps), resolvedVars,
                 ScanTokens(collectStepTemplateTokens(Head(steps)), resolvedVars, unresolved))

\* the substitution loop (lines 331-346): the resolved steps or the first
\* step that fails
RECURSIVE ResolveSteps(_, _)
ResolveSteps(steps, resolvedVars) ==
  IF steps = <<>> THEN [ok |-> TRUE, steps |-> <<>>, stepId |-> <<>>]
  ELSE With(resolveRecipeStepTemplatesResult(Head(steps), resolvedVars), LAMBDA h :
         IF ~h.ok THEN [ok |-> FALSE, steps |-> <<>>, stepId |-> Head(steps).id]
         ELSE With(ResolveSteps(Tail(steps), resolvedVars), LAMBDA t :
                IF ~t.ok THEN t ELSE [t EXCEPT !.steps = <<h.step>> \o t.steps]))

\* the unresolved set in insertion order
SortUnresolvedSkipped(unresolved) == unresolved

\* [...unresolvedVars].sort((a, b) => a.localeCompare(b))
SortUnresolved(unresolved) == SortStrings(unresolved)

MkPlan(resolvedVars, unresolved, warnings, steps) ==
  [resolvedVars |-> resolvedVars, unresolvedVars |-> SortUnresolved(unresolved),
   warnings |-> warnings, steps |-> steps]

\* an end of the builder that never substitutes
PlanOrErrorUntouched(recipeSteps, resolvedVars, un, warnings) ==
  [ok |-> TRUE, plan |-> MkPlan(resolvedVars, un, warnings, recipeSteps), error |-> None]

\* lines 329-356: substitute only when nothing is unresolved, then return
PlanOrError(recipeSteps, resolvedVars, un, warnings) ==
  IF un # <<>>
  THEN [ok |-> TRUE, plan |-> MkPlan(resolvedVars, un, warnings, recipeSteps),
        error |-> None]
  ELSE With(ResolveSteps(recipeSteps, resolvedVars), LAMBDA r :
         IF ~r.ok
         THEN [ok |-> FALSE, plan |-> MkPlan(resolvedVars, un, warnings, <<>>),
               error |-> Some(PlanError("template_error", "step_resolution",
                                        <<>>, r.stepId))]
         ELSE [ok |-> TRUE, plan |-> MkPlan(resolvedVars, un, warnings, r.steps),
               error |-> None])

\* The end of buildExecutionPlanResult (lines 321-356): the plan, or the
\* step-resolution error
FinishPlanResult(recipeSteps, resolvedVars, unresolved, warnings) ==
  PlanOrError(recipeSteps, resolvedVars,
              ScanSteps(recipeSteps, resolvedVars, unresolved), warnings)

\* ------------------------------------------------------------------------
\* Step validation (src/unnamed/part_009)
\* ------------------------------------------------------------------------
\* a matcher without wildcard
matchesUrlExact(pattern, currentUrl) == currentUrl = pattern

\* matchesUrl: a trailing * makes the pattern a prefix
matchesUrl(pattern, currentUrl) ==
  IF pattern # <<>> /\ pattern[Len(pattern)] = "*"
  THEN StartsWith(currentUrl, SubSeq(pattern, 1, Len(pattern) - 1))
  ELSE currentUrl = pattern

\* a JavaScript string option is truthy when it is defined and non-empty
Truthy(o) == o # None /\ o[1] # <<>>

\* a guard evaluation that needs a current URL and a page
evaluateGuardStrict(guard, ctx) ==
  IF guard.type = "url_is"
  THEN Truthy(ctx.currentUrl) /\ matchesUrl(guard.value, ctx.currentUrl[1])
  ELSE IF guard.type = "url_not"
  THEN Truthy(ctx.currentUrl) /\ ~matchesUrl(guard.value, ctx.currentUrl[1])
  ELSE IF guard.type = "text_visible"
  THEN ctx.page /\ ctx.textVisible
  ELSE TRUE

\* evaluateGuard.  ctx.currentUrl is optional, ctx.page tells whether a page
\* was passed, ctx.textVisible what the page's waitFor does.
evaluateGuard(guard, ctx) ==
  IF guard.type = "url_is"
  THEN IF Truthy(ctx.currentUrl) THEN matchesUrl(guard.value, ctx.currentUrl[1]) ELSE TRUE
  ELSE IF guard.type = "url_not"
  THEN IF Truthy(ctx.currentUrl) THEN ~matchesUrl(guard.value, ctx.currentUrl[1]) ELSE TRUE
  ELSE IF guard.type = "text_visible"
  THEN IF ~ctx.page THEN TRUE ELSE ctx.textVisible
  ELSE TRUE

\* the index of the first "|" of a string from i on, 0 when there is none
RECURSIVE IndexOfBar(_, _)
IndexOfBar(s, i) ==
  IF i > Len(s) THEN 0 ELSE IF s[i] = "|" THEN i ELSE IndexOfBar(s, i + 1)

\* the second field of value.split("|"), when there is a first bar
RawCount(value, bar) ==
  With(IndexOfBar(value, bar + 1), LAMBDA bar2 :
    SubSeq(value, bar + 1, IF bar2 = 0 THEN Len(value) ELSE bar2 - 1))

\* parseMinItems: None, or Some of the count.  Number(rawCount) is taken
\* for the decimal numerals; every other text is taken as not a number.
parseMinItems(value) ==
  With(IndexOfBar(value, 1), LAMBDA bar :
    IF bar <= 1 THEN None
    ELSE With(RawCount(value, bar), LAMBDA rawCount :
           IF rawCount = <<>> \/ \E i \in 1..Len(rawCount) : ~IsDigit(rawCount[i])
           THEN None
           ELSE Some(ParseNat(rawCount, 0))))

\* an effect evaluation that fails a min_items value it cannot parse
evaluateEffectMalformedFails(effect, ctx) ==
  IF effect.type = "url_changed"
  THEN IF ~Truthy(ctx.currentUrl) THEN TRUE
       ELSE IF effect.value # <<>> THEN ctx.currentUrl[1] = effect.value
       ELSE ctx.beforeUrl # ctx.currentUrl
  ELSE IF effect.type = "text_visible"
  THEN IF ~ctx.page THEN TRUE ELSE ctx.textVisible
  ELSE IF effect.type = "min_items"
  THEN IF ~ctx.page THEN TRUE
       ELSE With(parseMinItems(effect.value), LAMBDA parsed :
              IF parsed = None THEN FALSE ELSE ctx.itemCount >= parsed[1])
  ELSE TRUE

\* evaluateEffect.  ctx.itemCount is what the page's locator count gives.
evaluateEffect(effect, ctx) ==
  IF effect.type = "url_changed"
  THEN IF ~Truthy(ctx.currentUrl) THEN TRUE
       ELSE IF effect.value # <<>> THEN ctx.currentUrl[1] = effect.value
       ELSE ctx.beforeUrl # ctx.currentUrl
  ELSE IF effect.type = "text_visible"
  THEN IF ~ctx.page THEN TRUE ELSE ctx.textVisible
  ELSE IF effect.type = "min_items"
  THEN IF ~ctx.page THEN TRUE
       ELSE With(parseMinItems(effect.value), LAMBDA parsed :
              IF parsed = None THEN TRUE ELSE ctx.itemCount >= parsed[1])
  ELSE TRUE

\* validateGuards: TRUE when every guard holds (the chain stops at the
\* first guard that fails)
validateGuards(step, ctx) ==
  \A i \in 1..Len(step.guards) : evaluateGuard(step.guards[i], ctx)

\* validateEffects: TRUE when every effect holds
validateEffects(step, ctx) ==
  \A i \in 1..Len(step.effects) : evaluateEffect(step.effects[i], ctx)

GuardCtx(currentUrl, page, env) ==
  [currentUrl |-> currentUrl, page |-> page, textVisible |-> env.guardText]

EffectCtx(beforeUrl, currentUrl, page, env) ==
  [beforeUrl |-> beforeUrl, currentUrl |-> currentUrl, page |-> page,
   textVisible |-> env.effectText, itemCount |-> env.itemCount]

\* ------------------------------------------------------------------------
\* Step executor (src/src/commands/run.ts)
\* ------------------------------------------------------------------------
\* a RunExecuteError; cause stands for the message
RunError(kind, stepId, cause) ==
  [kind |-> kind, stepId |-> stepId, reRecordedStepId |-> <<>>, cause |-> cause]

\* stepExecutionError
stepExecutionError(stepId, cause) == RunError("step_execution_failed", stepId, cause)

Attempt(selector, resolved) == [selector |-> selector, resolved |-> resolved]

\* tryClickResult / tryFillResult from the i-th candidate on: the
\* candidates attempted, in order, and whether one resolved.  resolves[i]
\* tells whether the page's locator for the i-th candidate acts in time.
RECURSIVE trySelectorsResult(_, _, _)
trySelectorsResult(selectors, resolves, i) ==
  IF i > Len(selectors) THEN [ok |-> FALSE, attempts |-> <<>>]
  ELSE IF resolves[i] THEN [ok |-> TRUE, attempts |-> <<Attempt(selectors[i], TRUE)>>]
  ELSE With(trySelectorsResult(selectors, resolves, i + 1), LAMBDA rest :
         [rest EXCEPT !.attempts = <<Attempt(selectors[i], FALSE)>> \o rest.attempts])

\* what executeStepResult gives: the Result, the candidates it attempted,
\* the page action it dispatched and the page's URL afterwards
ExecOut(ok, value, error, acted, attempts, live) ==
  [ok |-> ok, value |-> value, error |-> error, acted |-> acted,
   attempts |-> attempts, live |-> live]

\* the end of every acting branch: read the page's URL, assert the effects
AfterAction(step, beforeUrl, acted, attempts, env) ==
  IF validateEffects(step, EffectCtx(Some(beforeUrl), Some(env.newUrl), TRUE, env))
  THEN ExecOut(TRUE, env.newUrl, None, acted, attempts, env.newUrl)
  ELSE ExecOut(FALSE, <<>>, Some(stepExecutionError(step.id, "effect_failed")),
               acted, attempts, env.newUrl)

\* the click and fill branches after the candidates were tried
AfterSelectors(step, beforeUrl, live, tried, env) ==
  IF ~tried.ok
  THEN ExecOut(FALSE, <<>>, Some(stepExecutionError(step.id, "selectors_failed")),
               step.action, tried.attempts, live)
  ELSE AfterAction(step, beforeUrl, step.action, tried.attempts, env)

\* the click and fill branches
SelectorBranch(step, beforeUrl, live, env) ==
  IF step.selectorVariants = <<>>
  THEN ExecOut(FALSE, <<>>, Some(stepExecutionError(step.id, "no_selectors")),
               "none", <<>>, live)
  ELSE AfterSelectors(step, beforeUrl, live,
                      trySelectorsResult(step.selectorVariants, env.resolves, 1), env)

\* the goto and press branches: env.actionOk tells whether the page call
\* returns rather than throws
DirectBranch(step, beforeUrl, live, env) ==
  IF ~env.actionOk
  THEN ExecOut(FALSE, <<>>, Some(stepExecutionError(step.id, "action_threw")),
               step.action, <<>>, live)
  ELSE AfterAction(step, beforeUrl, step.action, <<>>, env)

\* executeStepResult after beforeUrl = currentUrl ?? page.url(): goto with
\* a url and press with a key call the page, click and fill with a value
\* try the candidates, everything else returns beforeUrl as a success
ExecDispatch(step, beforeUrl, live, env) ==
  IF (step.action = "goto" /\ Truthy(step.url)) \/ (step.action = "press" /\ Truthy(step.key))
  THEN DirectBranch(step, beforeUrl, live, env)
  ELSE IF step.action = "click" \/ (step.action = "fill" /\ step.value # None)
  THEN SelectorBranch(step, beforeUrl, live, env)
  ELSE ExecOut(TRUE, beforeUrl, None, "none", <<>>, live)

\* executeStepResult; live is the page's URL before the step
executeStepResult(step, currentUrl, live, env) ==
  ExecDispatch(step, IF currentUrl # None THEN currentUrl[1] ELSE live, live, env)

\* the first index >= i of s where the text sub starts, 0 when none
RECURSIVE IndexOfText(_, _, _)
IndexOfText(s, sub, i) ==
  IF i + Len(sub) - 1 > Len(s) THEN 0
  ELSE IF SubSeq(s, i, i + Len(sub) - 1) = sub THEN i
  ELSE IndexOfText(s, sub, i + 1)

\* the first index >= i of s holding one of "/", "?", "#", else Len(s) + 1
RECURSIVE HostEnd(_, _)
HostEnd(s, i) ==
  IF i > Len(s) \/ s[i] \in {"/", "?", "#"} THEN i ELSE HostEnd(s, i + 1)

\* new URL(text).hostname: None when the constructor throws.  A URL is a
\* scheme of letters and a colon; after "//" the host runs to the next
\* "/", "?" or "#"; http and https need a host; without "//" the host is empty.
UrlHostname(text) ==
  With(IndexOfText(text, <<":">>, 1), LAMBDA colon :
    IF colon <= 1 \/ \E i \in 1..(colon - 1) : CharRank(text[i]) < CharRank("a")
    THEN None
    ELSE IF SubSeq(text, colon + 1, colon + 2) # <<"/", "/">> THEN Some(<<>>)
    ELSE With(SubSeq(text, colon + 3, HostEnd(text, colon + 3) - 1), LAMBDA host :
           IF host = <<>> /\ SubSeq(text, 1, colon - 1)
                              \in {<<"h", "t", "t", "p">>, <<"h", "t", "t", "p", "s">>}
           THEN None ELSE Some(host)))

\* guardValue.replace(/\*+$/, "")
RECURSIVE StripStars(_)
StripStars(s) ==
  IF s # <<>> /\ s[Len(s)] = "*" THEN StripStars(SubSeq(s, 1, Len(s) - 1)) ELSE s

\* extractHostnameForGuardUrl
extractHostnameForGuardUrl(guardValue) == UrlHostname(StripStars(guardValue))

\* guardHostnameMatches
guardHostnameMatches(guardValue, currentUrl) ==
  /\ Truthy(extractHostnameForGuardUrl(guardValue))
  /\ Truthy(UrlHostname(currentUrl))
  /\ extractHostnameForGuardUrl(guardValue) = UrlHostname(currentUrl)

\* canSkipGuardForHttp
canSkipGuardForHttp(step, currentUrl) ==
  /\ Truthy(currentUrl)
  /\ \E i \in 1..Len(step.guards) :
       /\ step.guards[i].type = "url_is"
       /\ guardHostnameMatches(step.guards[i].value, currentUrl[1])

\* tryGuardWithHeal from the i-th guard on; env.guardTextLate is what
\* the longer wait for a text gives
RECURSIVE GuardsRelaxed(_, _, _, _)
GuardsRelaxed(guards, i, currentUrl, env) ==
  IF i > Len(guards) THEN TRUE
  ELSE IF guards[i].type = "url_is"
  THEN IF matchesUrl(guards[i].value, currentUrl)
          \/ guardHostnameMatches(guards[i].value, currentUrl)
       THEN GuardsRelaxed(guards, i + 1, currentUrl, env)
       ELSE FALSE
  ELSE IF guards[i].type = "url_not"
  THEN IF matchesUrl(guards[i].value, currentUrl) THEN FALSE
       ELSE GuardsRelaxed(guards, i + 1, currentUrl, env)
  ELSE IF guards[i].type = "text_visible" /\ ~env.guardTextLate THEN FALSE
  ELSE GuardsRelaxed(guards, i + 1, currentUrl, env)

\* tryGuardWithHeal
tryGuardWithHeal(step, currentUrl, env) ==
  IF step.guards = <<>> THEN FALSE ELSE GuardsRelaxed(step.guards, 1, currentUrl, env)

\* what runHttpStepResult gives: the Result (value is the optional URL),
\* whether the request was sent and whether a download was written
HttpOut(ok, value, error, fetched, saved) ==
  [ok |-> ok, value |-> value, error |-> error, fetched |-> fetched, saved |-> saved]

\* runHttpStepResult after its guards: env.fetchOk tells whether fetch
\* returns, env.download what saveHttpDownloadIfNeeded does
HttpFetch(step, beforeUrl, env) ==
  IF step.action # "fetch" \/ ~Truthy(step.url) THEN HttpOut(TRUE, beforeUrl, None, FALSE, FALSE)
  ELSE IF ~env.fetchOk
  THEN HttpOut(FALSE, None, Some(stepExecutionError(step.id, "fetch_threw")), FALSE, FALSE)
  ELSE IF env.download = "error"
  THEN HttpOut(FALSE, None, Some(stepExecutionError(step.id, "download_failed")), TRUE, FALSE)
  ELSE IF ~validateEffects(step, EffectCtx(beforeUrl, Some(env.newUrl), FALSE, env))
  THEN HttpOut(FALSE, None, Some(stepExecutionError(step.id, "effect_failed")),
               TRUE, env.download = "saved")
  ELSE HttpOut(TRUE, Some(env.newUrl), None, TRUE, env.download = "saved")

\* runHttpStepResult
runHttpStepResult(step, guardUrl, beforeUrl, heal, env) ==
  IF ~validateGuards(step, GuardCtx(guardUrl, FALSE, env))
     /\ ~(heal /\ canSkipGuardForHttp(step, guardUrl))
  THEN HttpOut(FALSE, None, Some(stepExecutionError(step.id, "guard_failed")), FALSE, FALSE)
  ELSE HttpFetch(step, beforeUrl, env)

\* ------------------------------------------------------------------------
\* Runner iterations (src/src/commands/run.ts)
\* ------------------------------------------------------------------------
\* the runner's locals that one iteration reads and writes: page tells
\* whether the Playwright page exists, live is the URL the page reports
RunnerState(page, httpCtx, pUrl, hUrl, prevMode, live) ==
  [page |-> page, httpContext |-> httpCtx, pageUrl |-> pUrl, httpUrl |-> hUrl,
   previousStepMode |-> prevMode, live |-> live]

\* an entry of the execution log: a step that was started, the action it
\* dispatched, the candidates it attempted and whether it succeeded
LogEntry(origin, idx, step, ok, acted, attempts) ==
  [origin |-> origin, index |-> idx, id |-> step.id, action |-> step.action,
   selectorVariants |-> step.selectorVariants, ok |-> ok, acted |-> acted,
   attempts |-> attempts]

\* what one iteration leaves: the error it returns if any, the locals,
\* the surface operations it made and what it did with the step
IterationOut(error, st, surface, acted, attempts) ==
  [error |-> error, st |-> st, surface |-> surface, acted |-> acted,
   attempts |-> attempts]

\* a ?? b on optional values
OrElse(a, b) == IF a # None THEN a ELSE b

\* lines 594-601: the guards and the action of a browser step
PwGuardedRun(step, st, surface, env) ==
  IF ~validateGuards(step, GuardCtx(OrElse(st.pageUrl, Some(st.live)), TRUE, env))
  THEN IterationOut(Some(stepExecutionError(step.id, "guard_failed")), st, surface,
                    "none", <<>>)
  ELSE With(executeStepResult(step, st.pageUrl, st.live, env), LAMBDA r :
         IF ~r.ok
         THEN IterationOut(r.error, [st EXCEPT !.live = r.live], surface,
                           r.acted, r.attempts)
         ELSE IterationOut(None,
                           [st EXCEPT !.pageUrl = Some(r.value), !.live = r.live,
                                      !.previousStepMode = "pw"],
                           surface, r.acted, r.attempts))

\* a cookie synchronisation whose failure escapes to the caller
syncHttpCookiesUncaught(env) ==
  [threw |-> ~env.syncOk,
   surface |-> IF env.syncOk THEN <<"cookie_sync">> ELSE <<"cookie_sync_failed">>]

\* lines 443-455: syncHttpCookiesToBrowserContext on a live HTTP surface.
\* env.syncOk tells whether storageState() and addCookies() return; the
\* catch of line 452 swallows what they throw.
syncHttpCookiesToBrowserContext(env) ==
  [threw |-> FALSE,
   surface |-> IF env.syncOk THEN <<"cookie_sync">> ELSE <<"cookie_sync_failed">>]

\* a switch to the browser that releases the HTTP surface before it reads
\* the surface's cookies
PwSwitchDisposeFirst(step, st, sync, env) ==
  IF sync.threw
  THEN IterationOut(Some(stepExecutionError(step.id, "sync_threw")), st,
                    sync.surface, "none", <<>>)
  ELSE IF ~env.disposeOk
  THEN IterationOut(Some(stepExecutionError(step.id, "dispose_threw")), st,
                    sync.surface, "none", <<>>)
  ELSE PwGuardedRun(step, [st EXCEPT !.httpContext = "none"],
                    <<"http_dispose">> \o sync.surface, env)

\* lines 571-603: one iteration of runPlanSteps on a browser step.
\* env.disposeOk tells whether releasing the HTTP surface returns; what
\* the try of lines 585-596 catches becomes the step's error.
PwSwitch(step, st, sync, env) ==
  IF sync.threw
  THEN IterationOut(Some(stepExecutionError(step.id, "sync_threw")), st,
                    sync.surface, "none", <<>>)
  ELSE IF ~env.disposeOk
  THEN IterationOut(Some(stepExecutionError(step.id, "dispose_threw")), st,
                    sync.surface, "none", <<>>)
  ELSE PwGuardedRun(step, [st EXCEPT !.httpContext = "none"],
                    sync.surface \o <<"http_dispose">>, env)

PwIteration(step, st, env) ==
  IF ~st.page
  THEN IterationOut(Some(RunError("context_unavailable", step.id, "no_page")), st, <<>>,
                    "none", <<>>)
  ELSE IF st.httpContext = "open"
  THEN PwSwitch(step, st, syncHttpCookiesToBrowserContext(env), env)
  ELSE PwGuardedRun(step, st, <<>>, env)

\* lines 631-640: the HTTP step on its surface
HttpRun(step, st, surface, heal, env) ==
  With(runHttpStepResult(step, OrElse(st.pageUrl, st.httpUrl), OrElse(st.httpUrl, st.pageUrl),
                         heal, env),
       LAMBDA r :
    IF ~r.ok THEN IterationOut(r.error, st, surface, IF r.fetched THEN "fetch" ELSE "none", <<>>)
    ELSE IterationOut(None, [st EXCEPT !.httpUrl = r.value, !.previousStepMode = "http"],
                      surface, IF r.fetched THEN "fetch" ELSE "none", <<>>))

\* lines 605-641: one iteration on an HTTP step.  A surface is created
\* unless the previous step ran on one; env.contextOk tells whether the
\* creation returns.
HttpIteration(step, st, heal, env) ==
  IF st.httpContext = "open" /\ st.previousStepMode = "http"
  THEN HttpRun(step, st, <<>>, heal, env)
  ELSE IF st.httpContext = "open" /\ ~env.disposeOk
  THEN IterationOut(Some(stepExecutionError(step.id, "dispose_threw")), st, <<>>,
                    "none", <<>>)
  ELSE IF ~env.contextOk
  THEN IterationOut(Some(stepExecutionError(step.id, "context_threw")), st,
                    IF st.httpContext = "open" THEN <<"http_dispose">> ELSE <<>>,
                    "none", <<>>)
  ELSE HttpRun(step, [st EXCEPT !.httpContext = "open"],
               (IF st.httpContext = "open" THEN <<"http_dispose">> ELSE <<>>)
                 \o <<"http_new">>,
               heal, env)

\* one iteration of the loop of runPlanSteps (lines 570-641)
RunIteration(step, st, env) ==
  IF step.mode = "pw" THEN PwIteration(step, st, env)
  ELSE HttpIteration(step, st, FALSE, env)

\* a loop that goes on to the next step whatever the step's Result
LoopContinuesAlways(error) == TRUE

\* lines 596 and 638: the loop goes on to the next step only when the
\* step's Result is not an error
LoopContinues(error) == error = None

\* ------------------------------------------------------------------------
\* Healing (src/src/commands/run.ts, src/src/core/compile-heuristic.ts)
\* ------------------------------------------------------------------------
\* a retry that writes the new selectors into the plan's step object
PatchInPlace(step, newSelectors) ==
  [step |-> [step EXCEPT !.selectorVariants = newSelectors \o step.selectorVariants],
   patchedStep |-> [step EXCEPT !.selectorVariants = newSelectors \o step.selectorVariants]]

\* lines 535-538: the step the retry runs on.  step is the plan's step
\* object after the statement, patchedStep the object built from it.
CopyWithSelectors(step, newSelectors) ==
  [step |-> step,
   patchedStep |-> [step EXCEPT !.selectorVariants = newSelectors \o step.selectorVariants]]

\* what executePwStepWithHealResult gives: the Result, the runs of
\* executeStepResult it made, the page's URL and the plan's step afterwards
PwHealOut(ok, currentUrl, healed, patchSelectors, error, runs, live, step) ==
  [ok |-> ok, currentUrl |-> currentUrl, healed |-> healed,
   patchSelectors |-> patchSelectors, error |-> error, runs |-> runs,
   live |-> live, step |-> step]

\* a run of executeStepResult, with the step object it ran on
StepRun(origin, step, run) == [origin |-> origin, step |-> step, run |-> run]

\* a verdict that reports the step healed whatever the retry gave
AfterPatchedRunKeepsPatch(first, retry, newSelectors, step) ==
  PwHealOut(TRUE, IF retry.run.ok THEN Some(retry.run.value) ELSE None, TRUE,
            newSelectors, None, <<first, retry>>, retry.run.live, step)

\* lines 539-546: the verdict of the retry
AfterPatchedRun(first, retry, newSelectors, step) ==
  IF ~retry.run.ok
  THEN PwHealOut(FALSE, None, FALSE, <<>>, retry.run.error, <<first, retry>>,
                 retry.run.live, step)
  ELSE PwHealOut(TRUE, Some(retry.run.value), TRUE, newSelectors, None,
                 <<first, retry>>, retry.run.live, step)

\* lines 534-540: the retry on the patched copy
RetryPatched(p, currentUrl, first, env) ==
  AfterPatchedRun(first,
                  StepRun("retry", p.patchedStep,
                          executeStepResult(p.patchedStep, currentUrl, first.run.live,
                                            env.second)),
                  env.heal.newSelectors, p.step)

\* lines 520-533: after the first run; env.heal is what healSelector gives
AfterFirstRun(step, currentUrl, first, env) ==
  IF first.run.ok
  THEN PwHealOut(TRUE, Some(first.run.value), FALSE, <<>>, None, <<first>>,
                 first.run.live, step)
  ELSE IF step.action \notin {"click", "fill"} \/ ~env.heal.healed
  THEN PwHealOut(FALSE, None, FALSE, <<>>, first.run.error, <<first>>,
                 first.run.live, step)
  ELSE RetryPatched(CopyWithSelectors(step, env.heal.newSelectors), currentUrl,
                    first, env)

\* lines 511-517: the guards, relaxed by tryGuardWithHeal
PwGuardsPass(step, url, env) ==
  validateGuards(step, GuardCtx(Some(url), TRUE, env)) \/ tryGuardWithHeal(step, url, env)

\* executePwStepWithHealResult
executePwStepWithHealResult(step, currentUrl, live, env) ==
  IF ~PwGuardsPass(step, IF currentUrl # None THEN currentUrl[1] ELSE live, env.first)
  THEN PwHealOut(FALSE, None, FALSE, <<>>,
                 Some(stepExecutionError(step.id, "guard_failed")), <<>>, live, step)
  ELSE AfterFirstRun(step, currentUrl,
                     StepRun("plan", step,
                             executeStepResult(step, currentUrl, live, env.first)),
                     env)

\* what one iteration of the healing loop leaves: outcome is "ok" (go on
\* to the next step), "fatal" (the run returns the error) or "phase2"
HealOut(outcome, error, st, surface, entries, patch, step) ==
  [outcome |-> outcome, error |-> error, st |-> st, surface |-> surface,
   entries |-> entries, patch |-> patch, step |-> step]

\* the log entries of the runs one call of executePwStepWithHealResult
\* made; a call that stopped at the guards started the step all the same
RunEntries(idx, step, runs) ==
  IF runs = <<>> THEN <<LogEntry("plan", idx, step, FALSE, "none", <<>>)>>
  ELSE [i \in 1..Len(runs) |->
          LogEntry(runs[i].origin, idx, runs[i].step, runs[i].run.ok,
                   runs[i].run.acted, runs[i].run.attempts)]

\* lines 762-777: the browser step under healing
HealPwRun(step, idx, st, surface, env) ==
  With(executePwStepWithHealResult(step, st.pageUrl, st.live, env), LAMBDA r :
    IF r.ok
    THEN HealOut("ok", None,
                 [st EXCEPT !.pageUrl = r.currentUrl, !.live = r.live,
                            !.previousStepMode = "pw"],
                 surface, RunEntries(idx, step, r.runs),
                 IF r.healed THEN Some(r.patchSelectors) ELSE None, r.step)
    ELSE HealOut("phase2", r.error, [st EXCEPT !.live = r.live], surface,
                 RunEntries(idx, step, r.runs), None, r.step))

\* an HTTP step whose failure is handed to Phase 2 like a browser step's
HealHttpRunToPhase2(step, idx, r) ==
  HealOut(IF r.error = None THEN "ok" ELSE "phase2", r.error, r.st, r.surface,
          <<LogEntry("plan", idx, step, r.error = None, r.acted, <<>>)>>, None, step)

\* lines 707-743: the HTTP step under healing; its failure ends the run
HealHttpRun(step, idx, r) ==
  HealOut(IF r.error = None THEN "ok" ELSE "fatal", r.error, r.st, r.surface,
          <<LogEntry("plan", idx, step, r.error = None, r.acted, <<>>)>>, None, step)

\* a surface switch that goes on to the browser step without releasing
\* the HTTP surface
HealPwSwitchKeepsHttp(step, idx, st, sync, env) ==
  HealPwRun(step, idx, st, sync.surface, env)

\* lines 755-760: the surface switch under healing; what it throws is the
\* step's failure (line 776) and leads to Phase 2
HealPwSwitch(step, idx, st, sync, env) ==
  IF sync.threw \/ ~env.first.disposeOk
  THEN HealOut("phase2",
               Some(stepExecutionError(step.id, IF sync.threw THEN "sync_threw"
                                                ELSE "dispose_threw")),
               st, sync.surface, <<LogEntry("plan", idx, step, FALSE, "none", <<>>)>>,
               None, step)
  ELSE HealPwRun(step, idx, [st EXCEPT !.httpContext = "none"],
                 sync.surface \o <<"http_dispose">>, env)

\* one iteration of the loop of runPlanStepsWithHeal up to Phase 2
\* (lines 704-777)
HealIteration(step, idx, st, env) ==
  IF step.mode = "http" THEN HealHttpRun(step, idx, HttpIteration(step, st, TRUE, env.first))
  ELSE IF ~st.page
  THEN HealOut("fatal", Some(RunError("context_unavailable", step.id, "no_page")), st,
               <<>>, <<LogEntry("plan", idx, step, FALSE, "none", <<>>)>>, None, step)
  ELSE IF st.httpContext = "open"
  THEN HealPwSwitch(step, idx, st, syncHttpCookiesToBrowserContext(env.first), env)
  ELSE HealPwRun(step, idx, st, <<>>, env)

\* lines 826-904: one iteration of the loop over the re-captured steps
ReRecordIteration(newStep, st, env) ==
  IF newStep.mode = "http" THEN HttpIteration(newStep, st, TRUE, env)
  ELSE PwIteration(newStep, st, env)

\* the re_record_failed error of lines 842-847, 860-865, 883-888, 894-899
ReRecordError(stepId, newStepId, error) ==
  [kind |-> "re_record_failed", stepId |-> stepId, reRecordedStepId |-> newStepId,
   cause |-> error.cause]

\* a loop that is left after the re-captured steps have run
IndexAfterPhase2Break(idx, stepCount) == stepCount + 1

\* lines 703 and 906: after the re-captured steps of step index have run,
\* the loop over the plan's steps goes on with the next index
IndexAfterPhase2(idx, stepCount) == idx + 1

\* letters and their case
Capitals ==
  <<"A", "B", "C", "D", "E", "F", "G", "H", "I", "J", "K", "L", "M", "N",
    "O", "P", "Q", "R", "S", "T", "U", "V", "W", "X", "Y", "Z">>
Letters == SubSeq(Alphabet, 15, 40)
LowerChar(c) ==
  IF c \in Range(Capitals) THEN Letters[CHOOSE i \in 1..26 : Capitals[i] = c] ELSE c
UpperChar(c) ==
  IF c \in Range(Letters) THEN Capitals[CHOOSE i \in 1..26 : Letters[i] = c] ELSE c
toLowerCase(s) == [i \in 1..Len(s) |-> LowerChar(s[i])]
toUpperCase(s) == [i \in 1..Len(s) |-> UpperChar(s[i])]

\* String.prototype.includes
Includes(s, sub) == IndexOfText(s, sub, 1) > 0

\* compile-heuristic.ts lines 113-116: normalizeHttpMethod
normalizeHttpMethod(method) ==
  IF method = None THEN <<"G", "E", "T">>
  ELSE IF toUpperCase(Trim(method[1])) # <<>> THEN toUpperCase(Trim(method[1]))
  ELSE <<"G", "E", "T">>

\* the index after the literal matched at index i without regard to case,
\* 0 when it does not match
LiteralAt(s, i, lit) ==
  IF i + Len(lit) - 1 <= Len(s) /\ toLowerCase(SubSeq(s, i, i + Len(lit) - 1)) = lit
  THEN i + Len(lit) ELSE 0

\* compile-heuristic.ts lines 39-41: isDocumentDownload
DocumentExtensions ==
  {<<"p", "d", "f">>, <<"d", "o", "c">>, <<"d", "o", "c", "x">>, <<"x", "l", "s">>, <<"x", "l", "s", "x">>, <<"c", "s", "v">>, <<"z", "i", "p">>, <<"t", "a", "r", ".", "g", "z">>}
isDocumentDownload(url) ==
  \E i \in 1..Len(url) : \E e \in DocumentExtensions :
    /\ url[i] = "."
    /\ LiteralAt(url, i + 1, e) # 0
    /\ (LiteralAt(url, i + 1, e) > Len(url) \/ url[LiteralAt(url, i + 1, e)] = "?")

\* a RecordedEvent: anchors is None or Some of the selectorVariants
MkEvent(type, url, anchors, value, key) ==
  [type |-> type, url |-> url, anchors |-> anchors, value |-> value, key |-> key]

\* selectorKey: event.anchors?.selectorVariants[0]
selectorKey(event) ==
  IF event.anchors # None /\ event.anchors[1] # <<>> THEN Some(event.anchors[1][1]) ELSE None

\* isTransparentEvent
isTransparentEvent(event) ==
  \/ event.type = "console"
  \/ /\ event.type = "keypress"
     /\ (IF event.key # None THEN event.key[1] ELSE <<>>)
          \notin {<<"T", "a", "b">>, <<"E", "n", "t", "e", "r">>,
                  <<"E", "s", "c", "a", "p", "e">>}

\* the inner loop of aggregateInputEvents: the last input of the run that
\* starts before j, and the index after the run
RECURSIVE InputRun(_, _, _, _)
InputRun(events, key, last, j) ==
  IF j > Len(events) THEN [last |-> last, next |-> j]
  ELSE IF isTransparentEvent(events[j]) THEN InputRun(events, key, last, j + 1)
  ELSE IF events[j].type = "input" /\ selectorKey(events[j]) = key
  THEN InputRun(events, key, events[j], j + 1)
  ELSE [last |-> last, next |-> j]

\* aggregateInputEvents from index i on
RECURSIVE aggregateInputEvents(_, _)
aggregateInputEvents(events, i) ==
  IF i > Len(events) THEN <<>>
  ELSE IF events[i].type # "input" \/ events[i].anchors = None
  THEN <<events[i]>> \o aggregateInputEvents(events, i + 1)
  ELSE With(InputRun(events, selectorKey(events[i]), events[i], i + 1), LAMBDA run :
         <<run.last>> \o aggregateInputEvents(events, run.next))

\* the inner loop of deduplicateClicks: the index of the last click of the
\* run of same-key clicks that starts at i
RECURSIVE ClickRunEnd(_, _, _)
ClickRunEnd(events, key, i) ==
  IF i + 1 <= Len(events) /\ events[i + 1].type = "click"
     /\ selectorKey(events[i + 1]) = key
  THEN ClickRunEnd(events, key, i + 1) ELSE i

\* deduplicateClicks from index i on
RECURSIVE deduplicateClicks(_, _)
deduplicateClicks(events, i) ==
  IF i > Len(events) THEN <<>>
  ELSE IF events[i].type # "click" \/ events[i].anchors = None
  THEN <<events[i]>> \o deduplicateClicks(events, i + 1)
  ELSE <<events[i]>>
       \o deduplicateClicks(events, ClickRunEnd(events, selectorKey(events[i]), i) + 1)

\* String(n)
RECURSIVE NatToStr(_)
NatToStr(n) ==
  IF n < 10 THEN <<DigitChar(n)>> ELSE NatToStr(n \div 10) \o <<DigitChar(n % 10)>>

\* a recorded request; apiCandidate stands for the verdict isApiCandidate
\* (lines 78-111) gives on the request and the response recorded for it
MkRequestEvent(url, requestUrl, method, postData, apiCandidate) ==
  [type |-> "request", url |-> url, anchors |-> None, value |-> None, key |-> None,
   requestUrl |-> requestUrl, method |-> method, postData |-> postData,
   apiCandidate |-> apiCandidate]

\* lines 130-150: requestEventToFetchStep
requestEventToFetchStep(id, event, guards, download) ==
  [id |-> id, mode |-> "http", action |-> "fetch", url |-> event.requestUrl,
   method |-> Some(normalizeHttpMethod(event.method)),
   body |-> IF normalizeHttpMethod(event.method)
                 \in {<<"G", "E", "T">>, <<"H", "E", "A", "D">>}
            THEN None ELSE event.postData,
   download |-> download, selectorVariants |-> <<>>, value |-> None, key |-> None,
   guards |-> guards, effects |-> <<>>]

\* lines 196-215: the step of a recorded request
RequestStep(id, event, navigationUrls, seenRequestUrls) ==
  IF event.requestUrl[1] \in navigationUrls \/ event.requestUrl[1] \in seenRequestUrls
  THEN None
  ELSE IF isDocumentDownload(event.requestUrl[1])
  THEN Some(requestEventToFetchStep(id, event, <<>>, Some(TRUE)))
  ELSE IF ~event.apiCandidate THEN None
  ELSE Some(requestEventToFetchStep(id, event, <<Check("url_is", event.url)>>, None))

\* a classifier that keeps a recorded request to a page the browser
\* navigated to as a navigation on the HTTP surface
eventToStepHttpGoto(event, index, navigationUrls, seenRequestUrls) ==
  IF event.type = "navigation"
  THEN Some(MkStep(<<"s", "t", "e", "p", "-">> \o NatToStr(index + 1), "pw", "goto",
                   Some(event.url), <<>>, None, None, <<>>,
                   <<Check("url_changed", event.url)>>))
  ELSE IF event.type = "request" /\ event.requestUrl # None
            /\ event.requestUrl[1] \in navigationUrls
  THEN Some(MkStep(<<"s", "t", "e", "p", "-">> \o NatToStr(index + 1), "http", "goto",
                   event.requestUrl, <<>>, None, None, <<>>, <<>>))
  ELSE None

\* lines 152-218: eventToStep; None for an event that makes no step
eventToStep(event, index, navigationUrls, seenRequestUrls) ==
  IF event.type = "navigation"
  THEN Some(MkStep(<<"s", "t", "e", "p", "-">> \o NatToStr(index + 1), "pw", "goto",
                   Some(event.url), <<>>, None, None, <<>>,
                   <<Check("url_changed", event.url)>>))
  ELSE IF event.type = "click" /\ event.anchors # None
  THEN Some(MkStep(<<"s", "t", "e", "p", "-">> \o NatToStr(index + 1), "pw", "click",
                   None, event.anchors[1], None, None,
                   <<Check("url_is", event.url)>>, <<>>))
  ELSE IF event.type = "input" /\ event.anchors # None
  THEN Some(MkStep(<<"s", "t", "e", "p", "-">> \o NatToStr(index + 1), "pw", "fill",
                   None, event.anchors[1], event.value, None,
                   <<Check("url_is", event.url)>>, <<>>))
  ELSE IF event.type = "request" /\ event.requestUrl # None
            /\ StartsWith(event.requestUrl[1], <<"h", "t", "t", "p">>)
  THEN RequestStep(<<"s", "t", "e", "p", "-">> \o NatToStr(index + 1), event,
                   navigationUrls, seenRequestUrls)
  ELSE None

\* lines 287-289: the URLs of the navigations
NavigationUrls(preprocessed) ==
  {preprocessed[k].url : k \in {j \in DOMAIN preprocessed : preprocessed[j].type = "navigation"}}

\* seenRequestUrls after the event at index i gave the step st
SeenAfter(seen, event, st) ==
  IF st # None /\ st[1].mode = "http" THEN seen \cup {event.requestUrl[1]} ELSE seen

\* preprocessed.map(eventToStep).filter(step !== null) from index i on,
\* seen being seenRequestUrls
RECURSIVE StepsOfEvents(_, _, _)
StepsOfEvents(preprocessed, i, seen) ==
  IF i > Len(preprocessed) THEN <<>>
  ELSE With(eventToStep(preprocessed[i], i - 1, NavigationUrls(preprocessed), seen),
            LAMBDA st :
         st \o StepsOfEvents(preprocessed, i + 1, SeenAfter(seen, preprocessed[i], st)))

\* eventsToSteps
eventsToSteps(events) ==
  StepsOfEvents(deduplicateClicks(aggregateInputEvents(events, 1), 1), 1, {})

\* lines 798-804: the events of the buffer that healing classifies
UserEvents(buffer) ==
  SelectSeq(buffer, LAMBDA e : e.type \in {"click", "input", "navigation", "keypress"})

\* a renumbering that counts the re-captured steps from 0
ReNumberFromZero(stepId, newSteps) ==
  [i \in 1..Len(newSteps) |->
     [newSteps[i] EXCEPT !.id = stepId \o <<"-", "h", "e", "a", "l", "e", "d", "-">>
                                \o NatToStr(i - 1)]]

\* lines 813-816: <originalStepId>-healed-<n>
ReNumber(stepId, newSteps) ==
  [i \in 1..Len(newSteps) |->
     [newSteps[i] EXCEPT !.id = stepId \o <<"-", "h", "e", "a", "l", "e", "d", "-">>
                                \o NatToStr(i)]]

\* lines 798-816: the steps Phase 2 makes of the capture buffer
Phase2Steps(stepId, buffer) == ReNumber(stepId, eventsToSteps(UserEvents(buffer)))

Replacement(stepId, newSteps) == [replacedFromStepId |-> stepId, newSteps |-> newSteps]

\* ------------------------------------------------------------------------
\* Recipe patcher (src/src/commands/run.ts)
\* ------------------------------------------------------------------------
\* mergedSteps.findIndex((s) => s.id === id): 0 when there is none
RECURSIVE FindIndex(_, _, _)
FindIndex(steps, id, i) ==
  IF i > Len(steps) THEN 0 ELSE IF steps[i].id = id THEN i ELSE FindIndex(steps, id, i + 1)

\* a splice that drops the steps after idx
SpliceDropTail(steps, idx, newSteps) == SubSeq(steps, 1, idx - 1) \o newSteps

\* mergedSteps.splice(idx, 1, ...newSteps)
Splice(steps, idx, newSteps) ==
  SubSeq(steps, 1, idx - 1) \o newSteps \o SubSeq(steps, idx + 1, Len(steps))

\* one iteration of the loop of applyPhase2Replacements
ApplyReplacement(mergedSteps, replacement, idx) ==
  IF idx = 0 THEN mergedSteps ELSE Splice(mergedSteps, idx, replacement.newSteps)

\* the loop of applyPhase2Replacements from the k-th replacement on
RECURSIVE ApplyReplacements(_, _, _)
ApplyReplacements(mergedSteps, replacements, k) ==
  IF k > Len(replacements) THEN mergedSteps
  ELSE ApplyReplacements(
         ApplyReplacement(mergedSteps, replacements[k],
                          FindIndex(mergedSteps, replacements[k].replacedFromStepId, 1)),
         replacements, k + 1)

\* applyPhase2Replacements: baseSteps is the caller's array after the call,
\* mergedSteps the array returned (a copy, spliced)
applyPhase2Replacements(baseSteps, replacements) ==
  [baseSteps |-> baseSteps,
   mergedSteps |-> ApplyReplacements(baseSteps, replacements, 1)]

\* a merge that replaces a patched step's candidates by the new selectors
MergeSelectorPatchesReplace(steps, selectorPatches) ==
  [steps |-> steps,
   mergedSteps |->
     [i \in 1..Len(steps) |->
        IF steps[i].id \in DOMAIN selectorPatches
        THEN [steps[i] EXCEPT !.selectorVariants = selectorPatches[steps[i].id]]
        ELSE steps[i]]]

\* lines 1023-1029: the selector patches merged into a copy of the
\* recipe's steps.  steps is the recipe's array after the statement.
MergeSelectorPatches(steps, selectorPatches) ==
  [steps |-> steps,
   mergedSteps |->
     [i \in 1..Len(steps) |->
        IF steps[i].id \in DOMAIN selectorPatches
        THEN [steps[i] EXCEPT !.selectorVariants =
                selectorPatches[steps[i].id] \o steps[i].selectorVariants]
        ELSE steps[i]]]

\* lines 1033-1041: the recipe handed to saveRecipeResult
HealedRecipe(rec, steps) ==
  [rec EXCEPT !.version = rec.version + 1, !.source = "healed", !.steps = steps]

\* a test that overlooks the re-recorded steps
AnyHealingPhase1Only(stats) == stats.phase1Healed > 0

\* line 1022: whether the run healed anything
AnyHealing(stats) == stats.phase1Healed > 0 \/ stats.phase2ReRecorded > 0

\* a check of the unresolved variables that never stops the command
HasUnresolvedIgnored(p) == FALSE

\* lines 974 (run.ts) and 40 (plan-service.ts): plan.unresolvedVars.length > 0
HasUnresolved(p) == Len(p.unresolvedVars) > 0

\* ------------------------------------------------------------------------
\* Inputs of the model
\* ------------------------------------------------------------------------
NT == <<"t">>
ND == <<"d">>
NK == <<"k">>
NZ == <<"z">>
VAcme == <<"a", "c">>
VNum == <<"4", "2">>
DateOk == <<"2", "0", "2", "6", "-", "0", "3", "-", "0", "1">>
DateBad == <<"2", "0", "2", "6", "/", "0", "2", "/", "2", "7">>
TodayPlus1 == <<"t", "o", "d", "a", "y", "+", "1", "d">>

CliResolver == MkResolver("cli", None, <<>>, <<>>)
CliAlias(key) == MkResolver("cli", Some(key), <<>>, <<>>)
BuiltinResolver(expr) == MkResolver("builtin", None, expr, <<>>)
SecretResolver == MkResolver("secret", None, <<>>, <<>>)
PromptedResolver(tpl) == MkResolver("prompted", None, <<>>, tpl)

PromptForT == <<"k", " ", "{", "{", "t", "}", "}">>
PromptPlain == <<"q">>

\* the variable declarations recipes of the model are built from
VarCatalogue ==
  { MkVar(NT, "string", TRUE, None, None, CliResolver),
    MkVar(NT, "date", FALSE, Some(DateBad), None, SecretResolver),
    MkVar(NT, "string", TRUE, None, None, SecretResolver),
    MkVar(NK, "string", FALSE, Some(VNum), None, SecretResolver),
    MkVar(NT, "date", TRUE, None, None, CliAlias(ND)),
    MkVar(ND, "date", FALSE, None, None, BuiltinResolver(TodayPlus1)),
    MkVar(ND, "date", TRUE, Some(DateOk), None, PromptedResolver(PromptForT)),
    MkVar(ND, "date", TRUE, None, None, CliResolver),
    MkVar(ND, "string", FALSE, Some(VAcme), Some(PatternDigits), BuiltinResolver(NZ)),
    MkVar(NK, "string", FALSE, None, None, PromptedResolver(PromptPlain)),
    MkVar(NK, "string", TRUE, None, Some(PatternDigits), PromptedResolver(PromptForT)),
    MkVar(NK, "date", TRUE, None, None, SecretResolver),
    MkVar(NK, "string", TRUE, Some(VAcme), None, CliAlias(NT)) }

\* declaration lists of at most n variables with pairwise distinct names
RECURSIVE VarLists(_)
VarLists(n) ==
  IF n = 0 THEN {<<>>}
  ELSE LET shorter == VarLists(n - 1)
       IN shorter \cup
          { Append(l, v) : l \in {x \in shorter : Len(x) = n - 1},
                           v \in VarCatalogue }
DistinctNames(l) == \A i, j \in 1..Len(l) : i # j => l[i].name # l[j].name

\* the caller-supplied maps (options.cliVars)
CliVarMaps ==
  { EmptyMap,
    MapPut(EmptyMap, NT, VAcme),
    MapPut(EmptyMap, NT, DateBad),
    MapPut(EmptyMap, ND, DateOk),
    MapPut(EmptyMap, ND, DateBad),
    MapPut(EmptyMap, NK, VNum),
    MapPut(MapPut(EmptyMap, NT, VAcme), ND, DateOk),
    MapPut(MapPut(EmptyMap, NT, DateOk), NK, DateOk) }

\* what the secret loader can do when called
SecretLoaderOutcomes ==
  { [kind |-> "value", value |-> DateOk], [kind |-> "value", value |-> VAcme],
    [kind |-> "absent", value |-> <<>>], [kind |-> "store_error", value |-> <<>>],
    [kind |-> "throw", value |-> <<>>] }

\* what the prompt runner can do when called
PromptOutcomes ==
  { [kind |-> "output", value |-> <<>>],
    [kind |-> "output", value |-> <<" ", "\n", " ", "4", "2", " ", "\n", "x">>],
    [kind |-> "output", value |-> DateOk],
    [kind |-> "output", value |-> DateBad \o <<"\n">>],
    [kind |-> "throw", value |-> <<>>] }

\* what the secret saver can do when called
SecretSaverOutcomes ==
  { [kind |-> "ok"], [kind |-> "store_error"], [kind |-> "throw"] }

NoSecret == [kind |-> "absent", value |-> <<>>]
NoPrompt == [kind |-> "output", value |-> <<>>]

\* the collaborator behaviours that matter to one variable's resolution
ResolverEnv(variable, resolvedVars) ==
  IF variable.name \in DOMAIN resolvedVars THEN {[secret |-> NoSecret, prompt |-> NoPrompt]}
  ELSE IF variable.resolver.type = "secret"
  THEN {[secret |-> o, prompt |-> NoPrompt] : o \in SecretLoaderOutcomes}
  ELSE IF variable.resolver.type = "prompted"
  THEN {[secret |-> NoSecret, prompt |-> o] : o \in PromptOutcomes}
  ELSE {[secret |-> NoSecret, prompt |-> NoPrompt]}

SaverEnv(variable, resolvedVars) ==
  IF variable.resolver.type = "secret" /\ variable.name \in DOMAIN resolvedVars
  THEN SecretSaverOutcomes ELSE {[kind |-> "ok"]}

UrlBase == <<"h", "t", "t", "p", ":", "/", "/", "a", "/">>
Tok(name) == <<"{", "{">> \o name \o <<"}", "}">>

\* the step lists of the plan-building inputs
PlanStepLists ==
  { <<MkStep(<<"s", "1">>, "pw", "goto", Some(UrlBase \o Tok(NT) \o Tok(ND)),
             <<>>, None, None, <<>>, <<>>)>>,
    <<MkStep(<<"s", "1">>, "pw", "goto", Some(UrlBase \o Tok(NZ) \o Tok(<<" ", "n", "o", "w">>)),
             <<>>, None, None, <<>>, <<>>),
      MkStep(<<"s", "2">>, "pw", "fill", None, <<<<"#">> \o Tok(NK)>>,
             Some(Tok(NT) \o Tok(NK)), None,
             <<Check("url_is", UrlBase \o Tok(NZ))>>, <<>>)>> }

UrlA == UrlBase
UrlAx == UrlBase \o <<"x">>
UrlB == <<"h", "t", "t", "p", ":", "/", "/", "b", "/">>

\* the URLs a page or a response can report after an action
PageUrls == {UrlA, UrlAx, UrlB}

SelA == <<"#", "a">>
SelB == <<"#", "b">>
SelH == <<"#", "h">>
KeyEnter == <<"E", "n", "t", "e", "r">>

\* the step shapes recipes of the runs are built from (the id is given
\* by the position in the recipe)
GotoStep ==
  MkStep(<<>>, "pw", "goto", Some(UrlA), <<>>, None, None, <<>>,
         <<Check("url_changed", UrlA)>>)
ClickStep ==
  MkStep(<<>>, "pw", "click", None, <<SelA, SelB>>, None, None,
         <<Check("url_is", UrlA)>>, <<>>)
ClickNoSelectors == MkStep(<<>>, "pw", "click", None, <<>>, None, None, <<>>, <<>>)
FillStep ==
  MkStep(<<>>, "pw", "fill", None, <<SelA>>, Some(Tok(NT)), None, <<>>,
         <<Check("text_visible", VAcme)>>)
FillNoValue == MkStep(<<>>, "pw", "fill", None, <<SelA>>, None, None, <<>>, <<>>)
PressStep == MkStep(<<>>, "pw", "press", None, <<>>, None, Some(KeyEnter), <<>>, <<>>)
FetchStep ==
  MkStep(<<>>, "http", "fetch", Some(UrlAx), <<>>, None, None,
         <<Check("url_is", UrlA \o <<"*">>)>>, <<>>)

RunStepShapes ==
  {GotoStep, ClickStep, ClickNoSelectors, FillStep, FillNoValue, PressStep, FetchStep}

\* the lists of at most n shapes
RECURSIVE ShapeLists(_, _)
ShapeLists(shapes, n) ==
  IF n = 0 THEN {<<>>}
  ELSE LET shorter == ShapeLists(shapes, n - 1)
       IN shorter \cup
          { Append(l, x) : l \in {y \in shorter : Len(y) = n - 1}, x \in shapes }

\* a list of shapes as recipe steps: the i-th step has id s<i>
WithIds(l) == [i \in 1..Len(l) |-> [l[i] EXCEPT !.id = <<"s">> \o NatToStr(i)]]

RunStepLists == { WithIds(l) : l \in ShapeLists(RunStepShapes, MaxSteps) }

VarT == MkVar(NT, "string", TRUE, None, None, CliResolver)
VarSecretT == MkVar(NT, "string", TRUE, None, None, SecretResolver)

\* options.vars of the runs
RawVarLists == {<<>>, <<NT \o <<"=">> \o VAcme>>, <<NT>>}

\* what loadRecipeResult can do
LoadOutcomes == {"ok", "recipe_read_failed", "recipe_parse_failed"}

\* what healSelector can give
HealOutcomes ==
  {[healed |-> FALSE, newSelectors |-> <<>>], [healed |-> TRUE, newSelectors |-> <<SelH>>]}

\* the events the operator's actions raise while the browser is open
HealEvents ==
  { MkEvent("click", UrlA, Some(<<SelH>>), None, None),
    MkEvent("navigation", UrlAx, None, None, None),
    MkEvent("keypress", UrlA, None, None, Some(KeyEnter)),
    MkRequestEvent(UrlA, Some(UrlA), <<"G", "E", "T">>, None, TRUE) }

Flags(relevant) == IF relevant THEN BOOLEAN ELSE {TRUE}
HasCheck(checks, type) == \E i \in 1..Len(checks) : checks[i].type = type
UsesSelectors(step) ==
  step.mode = "pw" /\ (step.action = "click" \/ (step.action = "fill" /\ step.value # None))
CallsPage(step) ==
  step.mode = "pw" /\ ((step.action = "goto" /\ Truthy(step.url))
                         \/ (step.action = "press" /\ Truthy(step.key)))
Fetches(step) == step.mode = "http" /\ step.action = "fetch" /\ Truthy(step.url)

\* what the page, the network and the surfaces can do during one step,
\* restricted to what the step can observe
StepEnvs(step, st, heal) ==
  { [syncOk |-> sy, disposeOk |-> d, contextOk |-> c, guardText |-> g, guardTextLate |-> gl,
     actionOk |-> a, resolves |-> r, newUrl |-> u, effectText |-> e, itemCount |-> 0,
     fetchOk |-> f, download |-> dl] :
      sy \in Flags(st.httpContext = "open" /\ step.mode = "pw"),
      d \in Flags(st.httpContext = "open"
                    /\ (step.mode = "pw" \/ st.previousStepMode # "http")),
      c \in Flags(step.mode = "http"
                    /\ ~(st.httpContext = "open" /\ st.previousStepMode = "http")),
      g \in Flags(step.mode = "pw" /\ HasCheck(step.guards, "text_visible")),
      gl \in Flags(heal /\ step.mode = "pw" /\ HasCheck(step.guards, "text_visible")),
      a \in Flags(CallsPage(step)),
      r \in IF UsesSelectors(step) THEN [1..Len(step.selectorVariants) -> BOOLEAN]
            ELSE {<<>>},
      u \in IF UsesSelectors(step) \/ CallsPage(step) \/ Fetches(step) THEN PageUrls
            ELSE {st.live},
      e \in Flags(step.mode = "pw" /\ HasCheck(step.effects, "text_visible")),
      f \in Flags(Fetches(step)),
      dl \in IF Fetches(step) THEN {"none", "saved", "error"} ELSE {"none"} }

\* ------------------------------------------------------------------------
\* State
\* ------------------------------------------------------------------------
VARIABLES
  recipe,        \* the stored recipe: version, source, steps, variables
  cliVars,       \* caller-supplied values (options.cliVars)
  opts,          \* entry point and options: entry, heal, planOnly, json, vars
  pc,            \* position of the command or service
  varIdx,        \* index of the loop over recipe.variables (both loops)
  resolvedVars,  \* buildExecutionPlanResult: resolvedVars
  warnings,      \* buildExecutionPlanResult: warnings
  unresolved,    \* buildExecutionPlanResult: unresolvedVars (a Set, in insertion order)
  calls,         \* collaborator calls made so far, in order
  planErr,       \* Some(error) once buildExecutionPlanResult returned an error
  plan,          \* Some(plan) once buildExecutionPlanResult returned a plan
  browser,       \* the browser surface: "none", "open" or "closed"
  httpContext,   \* the HTTP surface: "none" or "open"
  surfaceLog,    \* what was done to the surfaces, in order
  livePageUrl,   \* the URL the page itself reports (page.url())
  index,         \* position of the runner's loop over the plan's steps
  pageUrl,       \* the runner's pageUrl
  httpUrl,       \* the runner's httpUrl
  previousStepMode, \* the runner's previousStepMode
  execLog,       \* the steps started so far, in order, with what each did
  selectorPatches,     \* runPlanStepsWithHeal: selectorPatches
  phase2Replacements,  \* runPlanStepsWithHeal: phase2Replacements
  healStats,           \* runPlanStepsWithHeal: healStats
  isRecording,         \* runPlanStepsWithHeal: isRecording
  healRecordBuffer,    \* runPlanStepsWithHeal: healRecordBuffer
  reNumberedSteps,     \* runPlanStepsWithHeal: reNumberedSteps of the current Phase 2
  reIndex,             \* position of the loop over reNumberedSteps
  runResult,     \* Some(result) once the runner returned
  mergedSteps,   \* Some(steps) once the patcher built its merged list
  saveCalls,     \* the recipes handed to saveRecipeResult, in order
  output,        \* the JSON records written to stdout, in order
  cmdResult      \* Some(result) once the command or service returned

inputVars == <<recipe, cliVars, opts>>
planVars == <<varIdx, resolvedVars, warnings, unresolved, calls, planErr, plan>>
surfaceVars == <<browser, httpContext, surfaceLog, livePageUrl>>
loopVars == <<index, pageUrl, httpUrl, previousStepMode, execLog>>
healVars ==
  <<selectorPatches, phase2Replacements, healStats, isRecording, healRecordBuffer,
    reNumberedSteps, reIndex>>
endVars == <<runResult, mergedSteps, saveCalls, output, cmdResult>>
vars == <<inputVars, pc, planVars, surfaceVars, loopVars, healVars, endVars>>

MkRecipe(version, source, steps, variables) ==
  [version |-> version, source |-> source, steps |-> steps, variables |-> variables]

MkOpts(entry, heal, planOnly, json, rawVars) ==
  [entry |-> entry, heal |-> heal, planOnly |-> planOnly, json |-> json, vars |-> rawVars]

AboutBlank == <<"a", "b", "o", "u", "t", ":", "b", "l", "a", "n", "k">>

\* the state in which buildExecutionPlanResult starts (lines 248-263)
PlanStart ==
  /\ varIdx = 1
  /\ resolvedVars = cliVars
  /\ warnings = <<>>
  /\ unresolved = <<>>
  /\ calls = <<>>
  /\ planErr = None
  /\ plan = None

\* the state before any surface exists and before the runner starts
RunnerStart ==
  /\ browser = "none"
  /\ httpContext = "none"
  /\ surfaceLog = <<>>
  /\ livePageUrl = AboutBlank
  /\ index = 1
  /\ pageUrl = None
  /\ httpUrl = None
  /\ previousStepMode = "none"
  /\ execLog = <<>>
  /\ selectorPatches = EmptyMap
  /\ phase2Replacements = <<>>
  /\ healStats = [phase1Healed |-> 0, phase2ReRecorded |-> 0]
  /\ isRecording = FALSE
  /\ healRecordBuffer = <<>>
  /\ reNumberedSteps = <<>>
  /\ reIndex = 1
  /\ runResult = None
  /\ mergedSteps = None
  /\ saveCalls = <<>>
  /\ output = <<>>
  /\ cmdResult = None

\* buildExecutionPlanResult called on its own, as its tests call it
InitPlan ==
  /\ \E vl \in {l \in VarLists(MaxVars) : DistinctNames(l)}, sl \in PlanStepLists :
       recipe = MkRecipe(1, "compiled", sl, vl)
  /\ cliVars \in CliVarMaps
  /\ opts = MkOpts("build", FALSE, FALSE, FALSE, <<>>)
  /\ pc = "resolve"
  /\ PlanStart
  /\ RunnerStart

\* ------------------------------------------------------------------------
\* Actions of buildExecutionPlanResult
\* ------------------------------------------------------------------------
ResolveVariableEffect(r) ==
  /\ resolvedVars' = r.resolvedVars
  /\ unresolved' = r.unresolved
  /\ warnings' = r.warnings
  /\ calls' = calls \o r.calls
  /\ planErr' = r.fatal
  /\ IF r.fatal # None
     THEN pc' = "plan_returned" /\ varIdx' = varIdx
     ELSE IF varIdx < Len(recipe.variables)
     THEN pc' = "resolve" /\ varIdx' = varIdx + 1
     ELSE pc' = "save_secrets" /\ varIdx' = 1

\* one iteration of the loop over recipe.variables
ResolveVariable ==
  /\ pc = "resolve"
  /\ varIdx <= Len(recipe.variables)
  /\ \E env \in ResolverEnv(recipe.variables[varIdx], resolvedVars) :
       ResolveVariableEffect(ResolveIteration(recipe.variables[varIdx], resolvedVars,
                                              unresolved, warnings, env))
  /\ UNCHANGED <<inputVars, plan, surfaceVars, loopVars, healVars, endVars>>

\* a recipe without variables: both loops are empty
ResolveNothing ==
  /\ pc = "resolve"
  /\ Len(recipe.variables) = 0
  /\ pc' = "scan"
  /\ UNCHANGED <<inputVars, planVars, surfaceVars, loopVars, healVars, endVars>>

SaveSecretEffect(r) ==
  /\ calls' = calls \o r.calls
  /\ planErr' = r.fatal
  /\ IF r.fatal # None
     THEN pc' = "plan_returned" /\ varIdx' = varIdx
     ELSE IF varIdx < Len(recipe.variables)
     THEN pc' = "save_secrets" /\ varIdx' = varIdx + 1
     ELSE pc' = "scan" /\ varIdx' = varIdx

\* one iteration of the secret-saving loop
SaveSecret ==
  /\ pc = "save_secrets"
  /\ varIdx <= Len(recipe.variables)
  /\ \E env \in SaverEnv(recipe.variables[varIdx], resolvedVars) :
       SaveSecretEffect(SaveSecretIteration(recipe.variables[varIdx], resolvedVars, env))
  /\ UNCHANGED <<inputVars, resolvedVars, warnings, unresolved, plan,
                 surfaceVars, loopVars, healVars, endVars>>

FinishPlanEffect(r) ==
  /\ planErr' = r.error
  /\ plan' = IF r.ok THEN Some(r.plan) ELSE None

\* the step scan, the substitution and the return
FinishPlan ==
  /\ pc = "scan"
  /\ FinishPlanEffect(FinishPlanResult(recipe.steps, resolvedVars, unresolved, warnings))
  /\ pc' = "plan_returned"
  /\ UNCHANGED <<inputVars, varIdx, resolvedVars, warnings, unresolved, calls,
                 surfaceVars, loopVars, healVars, endVars>>

NextPlan == ResolveVariable \/ ResolveNothing \/ SaveSecret \/ FinishPlan

SpecPlan == InitPlan /\ [][NextPlan]_vars

\* ------------------------------------------------------------------------
\* The run command and the plan and run services
\* (src/src/commands/run.ts, src/src/services/plan-service.ts,
\*  src/unnamed/part_007)
\* ------------------------------------------------------------------------
IsCommand == opts.entry = "command"

\* a JSON record on stdout
Json(version, ok, phase, error, withPlan) ==
  [version |-> version, ok |-> ok, phase |-> phase, error |-> error, plan |-> withPlan,
   message |-> <<>>]

\* lines 98-112: formatRunExecuteError; "phase" stands for error.phase and
\* the last element for the cause's own message
formatRunExecuteError(error) ==
  IF error.kind = "context_unavailable"
  THEN <<"P", "l", "a", "y", "w", "r", "i", "g", "h", "t", " ", "p", "a", "g", "e", " ", "i", "s", " ", "n", "o", "t", " ", "a", "v", "a", "i", "l", "a", "b", "l", "e", " ", "f", "o", "r", " ", "s", "t", "e", "p", " ">>
         \o error.stepId
  ELSE IF error.kind = "step_execution_failed"
  THEN <<"S", "t", "e", "p", " ">> \o error.stepId \o <<" ", "f", "a", "i", "l", "e", "d", ":", " ">>
         \o <<error.cause>>
  ELSE IF error.kind = "heal_record_failed"
  THEN <<"H", "e", "a", "l", "i", "n", "g", " ", "f", "a", "i", "l", "e", "d", " ", "f", "o", "r", " ", "s", "t", "e", "p", " ">>
         \o error.stepId \o <<":", " ">> \o <<error.cause>>
  ELSE IF error.kind = "re_record_failed"
  THEN <<"R", "e", "-", "r", "e", "c", "o", "r", "d", "e", "d", " ", "s", "t", "e", "p", " ">>
         \o error.reRecordedStepId \o <<" ", "f", "a", "i", "l", "e", "d", ":", " ">>
         \o <<error.cause>>
  ELSE <<"R", "u", "n", " ", "e", "x", "e", "c", "u", "t", "i", "o", "n", " ", "f", "a", "i", "l", "e", "d", " ", "(">>
         \o <<"phase">> \o <<")", ":", " ">> \o <<error.cause>>

\* formatRecipeStoreError (src/src/core/recipe-store.ts lines 48-50)
formatRecipeWriteFailed ==
  <<"R", "e", "c", "i", "p", "e", " ", "w", "r", "i", "t", "e", " ", "f", "a", "i", "l", "e", "d", " ", "(">>
    \o <<"recipeId">> \o <<")", ":", " ">> \o <<"message">>

\* the record of executeFailure (lines 993-1008)
JsonFailure(version, kind, message) ==
  [Json(version, FALSE, "execute", kind, None) EXCEPT !.message = message]

\* the Result the command or service returns; payload is the service's
\* PlanResult or RunResult
CmdErr(code) == [ok |-> FALSE, code |-> code, payload |-> None]
CmdOk(payload) == [ok |-> TRUE, code |-> "", payload |-> payload]

\* the command writes a record only under options.json
JsonIf(cond, record) == IF IsCommand /\ cond THEN Append(output, record) ELSE output

LoadRecipeEffect(loaded, parsed) ==
  IF loaded # "ok"
  THEN /\ cmdResult' = Some(CmdErr(IF IsCommand THEN loaded
                                   ELSE IF loaded = "recipe_read_failed"
                                   THEN "recipe_not_found" ELSE "recipe_load_failed"))
       /\ pc' = "done"
       /\ UNCHANGED <<cliVars, resolvedVars, output>>
  ELSE IF ~parsed.ok
  THEN /\ output' = JsonIf(opts.json, Json(recipe.version, FALSE, "plan", parsed.kind, None))
       /\ cmdResult' = Some(CmdErr("invalid_vars"))
       /\ pc' = "done"
       /\ UNCHANGED <<cliVars, resolvedVars>>
  ELSE /\ cliVars' = parsed.vars
       /\ resolvedVars' = parsed.vars
       /\ pc' = "resolve"
       /\ UNCHANGED <<cmdResult, output>>

\* runCommandInternalResult lines 943-962, planServiceResult lines 16-32:
\* load the recipe, parse options.vars, start building the plan
LoadRecipe ==
  /\ pc = "start"
  /\ \E loaded \in LoadOutcomes : LoadRecipeEffect(loaded, parseCliVariablesResult(opts.vars))
  /\ UNCHANGED <<recipe, opts, varIdx, warnings, unresolved, calls, planErr, plan,
                 surfaceVars, loopVars, healVars, runResult, mergedSteps, saveCalls>>

\* runCommandInternalResult lines 963-991, planServiceResult lines 33-48,
\* runServiceResult lines 22-30: what follows the plan
AfterPlan ==
  /\ pc = "plan_returned"
  /\ opts.entry # "build"
  /\ IF planErr # None
     THEN /\ output' = JsonIf(opts.json,
                              Json(recipe.version, FALSE, "plan", planErr[1].kind, None))
          /\ cmdResult' = Some(CmdErr("plan_build_failed"))
          /\ pc' = "done"
     ELSE IF HasUnresolved(plan[1])
     THEN /\ output' = JsonIf(opts.json, Json(recipe.version, FALSE, "plan", "", plan))
          /\ cmdResult' = Some(CmdErr("unresolved_vars"))
          /\ pc' = "done"
     ELSE IF IsCommand /\ opts.planOnly
     THEN /\ output' = JsonIf(TRUE, Json(recipe.version, TRUE, "plan", "", plan))
          /\ cmdResult' = Some(CmdOk(None))
          /\ pc' = "done"
     ELSE IF opts.entry = "plan_service"
     THEN /\ cmdResult' = Some(CmdOk(Some([version |-> recipe.version, ok |-> TRUE,
                                            phase |-> "plan"])))
          /\ pc' = "done"
          /\ output' = output
     ELSE /\ pc' = "launch"
          /\ UNCHANGED <<cmdResult, output>>
  /\ UNCHANGED <<inputVars, planVars, surfaceVars, loopVars, healVars, runResult,
                 mergedSteps, saveCalls>>

RunErr(error) == [ok |-> FALSE, error |-> Some(error)]
RunOk == [ok |-> TRUE, error |-> None]

\* a finally block that releases the surfaces of a successful run only
CleanupOnSuccess ==
  /\ pc = "cleanup"
  /\ httpContext' = IF runResult[1].ok THEN "none" ELSE httpContext
  /\ browser' = IF browser = "open" /\ runResult[1].ok THEN "closed" ELSE browser
  /\ surfaceLog' = surfaceLog
                     \o (IF httpContext = "open" /\ runResult[1].ok THEN <<"http_dispose">>
                         ELSE <<>>)
                     \o (IF browser = "open" /\ runResult[1].ok THEN <<"close">> ELSE <<>>)
  /\ pc' = "report"
  /\ UNCHANGED <<inputVars, planVars, livePageUrl, loopVars, healVars, endVars>>

\* what chromium.launch, newContext, newPage and the set-up after them can
\* do: all return, launch throws, or a later call throws with the browser
\* launched
LaunchOutcomes == {"ok", "launch_threw", "setup_threw"}

\* runPlanSteps lines 553-565, runPlanStepsWithHeal lines 677-697: the
\* browser is launched only when the plan has a browser step; what the
\* calls throw is caught at lines 644, 914
Launch ==
  /\ pc = "launch"
  /\ IF \E i \in 1..Len(plan[1].steps) : plan[1].steps[i].mode = "pw"
     THEN \E outcome \in LaunchOutcomes :
            /\ browser' = IF outcome = "launch_threw" THEN browser ELSE "open"
            /\ surfaceLog' = IF outcome = "launch_threw" THEN surfaceLog
                             ELSE Append(surfaceLog, "launch")
            /\ IF outcome = "ok"
               THEN pc' = "loop" /\ runResult' = runResult
               ELSE /\ runResult' = Some(RunErr(RunError("unexpected_error", <<>>, outcome)))
                    /\ pc' = "cleanup"
     ELSE /\ pc' = "loop"
          /\ UNCHANGED <<browser, surfaceLog, runResult>>
  /\ UNCHANGED <<inputVars, planVars, httpContext, livePageUrl, loopVars, healVars,
                 mergedSteps, saveCalls, output, cmdResult>>

CurrentState ==
  RunnerState(browser = "open", httpContext, pageUrl, httpUrl, previousStepMode, livePageUrl)

\* the locals and surfaces after an iteration
IterationEffect(st, surface) ==
  /\ httpContext' = st.httpContext
  /\ pageUrl' = st.pageUrl
  /\ httpUrl' = st.httpUrl
  /\ previousStepMode' = st.previousStepMode
  /\ livePageUrl' = st.live
  /\ surfaceLog' = surfaceLog \o surface

RunStepEffect(step, r) ==
  /\ IterationEffect(r.st, r.surface)
  /\ execLog' = Append(execLog, LogEntry("plan", index, step, r.error = None, r.acted,
                                         r.attempts))
  /\ IF LoopContinues(r.error)
     THEN /\ index' = index + 1
          /\ UNCHANGED <<runResult, pc>>
     ELSE /\ runResult' = Some(RunErr(r.error[1]))
          /\ pc' = "cleanup"
          /\ index' = index

\* one iteration of the loop of runPlanSteps (lines 570-641)
RunStep ==
  /\ pc = "loop"
  /\ ~opts.heal
  /\ index <= Len(plan[1].steps)
  /\ \E env \in StepEnvs(plan[1].steps[index], CurrentState, FALSE) :
       RunStepEffect(plan[1].steps[index],
                     RunIteration(plan[1].steps[index], CurrentState, env))
  /\ UNCHANGED <<inputVars, planVars, browser, healVars, mergedSteps, saveCalls, output,
                 cmdResult>>

\* runPlanSteps line 643: every step succeeded
RunDone ==
  /\ pc = "loop"
  /\ ~opts.heal
  /\ index > Len(plan[1].steps)
  /\ runResult' = Some(RunOk)
  /\ pc' = "cleanup"
  /\ UNCHANGED <<inputVars, planVars, surfaceVars, loopVars, healVars, mergedSteps,
                 saveCalls, output, cmdResult>>

\* the finally blocks of runPlanSteps (lines 650-665) and of
\* runPlanStepsWithHeal (lines 920-935)
Cleanup ==
  /\ pc = "cleanup"
  /\ httpContext' = "none"
  /\ browser' = IF browser = "open" THEN "closed" ELSE browser
  /\ surfaceLog' = surfaceLog \o (IF httpContext = "open" THEN <<"http_dispose">> ELSE <<>>)
                              \o (IF browser = "open" THEN <<"close">> ELSE <<>>)
  /\ pc' = "report"
  /\ UNCHANGED <<inputVars, planVars, livePageUrl, loopVars, healVars, endVars>>

\* the end of the command when nothing is to be saved: executeFailure
\* (lines 993-1008) or the success record (lines 1061-1073)
ReportPlain ==
  /\ output' = JsonIf(opts.json,
                      IF runResult[1].ok THEN Json(recipe.version, TRUE, "execute", "", None)
                      ELSE JsonFailure(recipe.version, runResult[1].error[1].kind,
                                       formatRunExecuteError(runResult[1].error[1])))
  /\ cmdResult' = Some(IF runResult[1].ok THEN CmdOk(None) ELSE CmdErr("execute_failed"))
  /\ UNCHANGED <<recipe, mergedSteps, saveCalls>>

\* lines 1023-1049: merge the patches into a copy of the recipe's steps,
\* save the healed recipe; saved tells whether saveRecipeResult succeeds
ReportHealed(m, a, saved) ==
  /\ recipe' = [recipe EXCEPT !.steps = m.steps]
  /\ mergedSteps' = Some(a.mergedSteps)
  /\ saveCalls' = Append(saveCalls, HealedRecipe(recipe, a.mergedSteps))
  /\ output' = JsonIf(opts.json,
                      IF saved
                      THEN Json(HealedRecipe(recipe, a.mergedSteps).version, TRUE,
                                "execute", "", None)
                      ELSE JsonFailure(recipe.version, "recipe_write_failed",
                                       formatRecipeWriteFailed))
  /\ cmdResult' = Some(IF saved THEN CmdOk(None) ELSE CmdErr("execute_failed"))

MergeAndSave(m, saved) ==
  ReportHealed(m, applyPhase2Replacements(m.mergedSteps, phase2Replacements), saved)

\* an end of the command that saves what was healed whatever the run gave
ReportCommandSavesOnFailure ==
  /\ pc = "report"
  /\ IsCommand
  /\ IF opts.heal /\ AnyHealing(healStats)
     THEN \E saved \in BOOLEAN :
            MergeAndSave(MergeSelectorPatches(recipe.steps, selectorPatches), saved)
     ELSE ReportPlain
  /\ pc' = "done"
  /\ UNCHANGED <<cliVars, opts, planVars, surfaceVars, loopVars, healVars, runResult>>

\* runCommandInternalResult lines 1010-1073: the end of the command
ReportCommand ==
  /\ pc = "report"
  /\ IsCommand
  /\ IF runResult[1].ok /\ opts.heal /\ AnyHealing(healStats)
     THEN \E saved \in BOOLEAN :
            MergeAndSave(MergeSelectorPatches(recipe.steps, selectorPatches), saved)
     ELSE ReportPlain
  /\ pc' = "done"
  /\ UNCHANGED <<cliVars, opts, planVars, surfaceVars, loopVars, healVars, runResult>>

\* runServiceResult lines 34-57: the RunResult of the service
ReportService ==
  /\ pc = "report"
  /\ opts.entry = "run_service"
  /\ cmdResult' = Some(CmdOk(Some([version |-> recipe.version, ok |-> runResult[1].ok,
                                   phase |-> "execute"])))
  /\ pc' = "done"
  /\ UNCHANGED <<inputVars, planVars, surfaceVars, loopVars, healVars, runResult,
                 mergedSteps, saveCalls, output>>

\* ------------------------------------------------------------------------
\* The healing runner (src/src/commands/run.ts, runPlanStepsWithHeal)
\* ------------------------------------------------------------------------
HealStepEffect(step, r) ==
  /\ IterationEffect(r.st, r.surface)
  /\ execLog' = execLog \o r.entries
  /\ plan' = Some([plan[1] EXCEPT !.steps[index] = r.step])
  /\ selectorPatches' = IF r.patch # None THEN MapPut(selectorPatches, step.id, r.patch[1])
                        ELSE selectorPatches
  /\ healStats' = IF r.patch # None
                  THEN [healStats EXCEPT !.phase1Healed = healStats.phase1Healed + 1]
                  ELSE healStats
  /\ IF r.outcome = "ok"
     THEN /\ index' = index + 1
          /\ UNCHANGED <<pc, runResult, isRecording, healRecordBuffer>>
     ELSE IF r.outcome = "fatal"
     THEN /\ runResult' = Some(RunErr(r.error[1]))
          /\ pc' = "cleanup"
          /\ UNCHANGED <<index, isRecording, healRecordBuffer>>
     ELSE /\ healRecordBuffer' = <<>>
          /\ isRecording' = TRUE
          /\ pc' = "recording"
          /\ UNCHANGED <<index, runResult>>

\* one iteration of the loop of runPlanStepsWithHeal up to the wait of
\* Phase 2 (lines 703-786)
HealStep ==
  /\ pc = "loop"
  /\ opts.heal
  /\ index <= Len(plan[1].steps)
  /\ \E first \in StepEnvs(plan[1].steps[index], CurrentState, TRUE) :
       \E heal \in (IF UsesSelectors(plan[1].steps[index]) THEN HealOutcomes
                    ELSE {[healed |-> FALSE, newSelectors |-> <<>>]}) :
         \E second \in (IF heal.healed
                        THEN StepEnvs(CopyWithSelectors(plan[1].steps[index],
                                                        heal.newSelectors).patchedStep,
                                      CurrentState, TRUE)
                        ELSE {first}) :
           HealStepEffect(plan[1].steps[index],
                          HealIteration(plan[1].steps[index], index, CurrentState,
                                        [first |-> first, heal |-> heal,
                                         second |-> second]))
  /\ UNCHANGED <<inputVars, varIdx, resolvedVars, warnings, unresolved, calls, planErr,
                 browser, phase2Replacements, reNumberedSteps, reIndex, mergedSteps,
                 saveCalls, output, cmdResult>>

\* the recording callback of a run that stores the event whatever the runner does
CaptureEventAlways ==
  /\ opts.heal
  /\ browser = "open"
  /\ pc \in {"loop", "recording", "rerecord"}
  /\ Len(healRecordBuffer) < MaxCapture
  /\ \E event \in HealEvents : healRecordBuffer' = Append(healRecordBuffer, event)
  /\ UNCHANGED <<inputVars, pc, planVars, surfaceVars, loopVars, selectorPatches,
                 phase2Replacements, healStats, isRecording, reNumberedSteps, reIndex,
                 endVars>>

\* lines 694-696: the recording callback; an event is kept only while
\* the runner is recording
CaptureEvent ==
  /\ opts.heal
  /\ browser = "open"
  /\ pc \in {"loop", "recording", "rerecord"}
  /\ Len(healRecordBuffer) < MaxCapture
  /\ \E event \in HealEvents :
       healRecordBuffer' = IF isRecording THEN Append(healRecordBuffer, event)
                           ELSE healRecordBuffer
  /\ UNCHANGED <<inputVars, pc, planVars, surfaceVars, loopVars, selectorPatches,
                 phase2Replacements, healStats, isRecording, reNumberedSteps, reIndex,
                 endVars>>

\* a Phase 2 without executable steps that ends the run as a success
HealRecordSkipped(stepId, cause) ==
  /\ runResult' = Some(RunOk)
  /\ pc' = "cleanup"
  /\ UNCHANGED <<phase2Replacements, healStats, reNumberedSteps, reIndex>>

\* lines 790-796, 806-812: the heal_record_failed returns of Phase 2
HealRecordFailed(stepId, cause) ==
  /\ runResult' = Some(RunErr(RunError("heal_record_failed", stepId, cause)))
  /\ pc' = "cleanup"
  /\ UNCHANGED <<phase2Replacements, healStats, reNumberedSteps, reIndex>>

PressEnterEffect(step, newSteps) ==
  IF healRecordBuffer = <<>> THEN HealRecordFailed(step.id, "no_user_actions")
  ELSE IF newSteps = <<>> THEN HealRecordFailed(step.id, "no_executable_steps")
  ELSE /\ reNumberedSteps' = newSteps
       /\ phase2Replacements' = Append(phase2Replacements, Replacement(step.id, newSteps))
       /\ healStats' = [healStats EXCEPT !.phase2ReRecorded = healStats.phase2ReRecorded + 1]
       /\ reIndex' = 1
       /\ pc' = "rerecord"
       /\ runResult' = runResult

\* lines 786-824: the operator's continuation signal ends the recording;
\* the buffer is classified into the re-captured steps
PressEnter ==
  /\ pc = "recording"
  /\ isRecording' = FALSE
  /\ PressEnterEffect(plan[1].steps[index],
                      Phase2Steps(plan[1].steps[index].id, healRecordBuffer))
  /\ UNCHANGED <<inputVars, planVars, surfaceVars, loopVars, selectorPatches,
                 healRecordBuffer, mergedSteps, saveCalls, output, cmdResult>>

ReRecordStepEffect(step, newStep, r) ==
  /\ IterationEffect(r.st, r.surface)
  /\ execLog' = Append(execLog, LogEntry("rerecorded", index, newStep, r.error = None,
                                         r.acted, r.attempts))
  /\ IF r.error # None
     THEN /\ runResult' = Some(RunErr(ReRecordError(step.id, newStep.id, r.error[1])))
          /\ pc' = "cleanup"
          /\ UNCHANGED <<index, reIndex>>
     ELSE IF reIndex < Len(reNumberedSteps)
     THEN /\ reIndex' = reIndex + 1
          /\ UNCHANGED <<index, pc, runResult>>
     ELSE /\ index' = IndexAfterPhase2(index, Len(plan[1].steps))
          /\ pc' = "loop"
          /\ UNCHANGED <<reIndex, runResult>>

\* one iteration of the loop over the re-captured steps (lines 826-904)
ReRecordStep ==
  /\ pc = "rerecord"
  /\ reIndex <= Len(reNumberedSteps)
  /\ \E env \in StepEnvs(reNumberedSteps[reIndex], CurrentState, TRUE) :
       ReRecordStepEffect(plan[1].steps[index], reNumberedSteps[reIndex],
                          ReRecordIteration(reNumberedSteps[reIndex], CurrentState, env))
  /\ UNCHANGED <<inputVars, planVars, browser, selectorPatches, phase2Replacements,
                 healStats, isRecording, healRecordBuffer, reNumberedSteps, mergedSteps,
                 saveCalls, output, cmdResult>>

\* runPlanStepsWithHeal lines 908-913: every step succeeded or was healed
HealDone ==
  /\ pc = "loop"
  /\ opts.heal
  /\ index > Len(plan[1].steps)
  /\ runResult' = Some(RunOk)
  /\ pc' = "cleanup"
  /\ UNCHANGED <<inputVars, planVars, surfaceVars, loopVars, healVars, mergedSteps,
                 saveCalls, output, cmdResult>>

\* ------------------------------------------------------------------------
\* Specifications
\* ------------------------------------------------------------------------
\* a command or service started on a stored recipe
InitEntry(optSet, stepLists, varLists) ==
  /\ \E sl \in stepLists, vl \in varLists : recipe = MkRecipe(1, "compiled", sl, vl)
  /\ cliVars = EmptyMap
  /\ opts \in optSet
  /\ pc = "start"
  /\ PlanStart
  /\ RunnerStart

\* the run command without healing, plan-only, and the two services
RunOptions ==
  { MkOpts("command", FALSE, FALSE, j, v) : j \in BOOLEAN, v \in RawVarLists }
  \cup { MkOpts("command", FALSE, TRUE, FALSE, v) : v \in RawVarLists }
  \cup { MkOpts(e, FALSE, FALSE, FALSE, v) : e \in {"plan_service", "run_service"},
                                              v \in RawVarLists }

Init == InitEntry(RunOptions, RunStepLists, {<<>>, <<VarT>>, <<VarSecretT>>})

NextCommand == LoadRecipe \/ NextPlan \/ AfterPlan \/ Launch \/ Cleanup \/ ReportCommand

Next == NextCommand \/ RunStep \/ RunDone \/ ReportService

Spec == Init /\ [][Next]_vars

\* the run command with healing
HealOptions == { MkOpts("command", TRUE, FALSE, TRUE, <<NT \o <<"=">> \o VAcme>>) }

\* the recipes of the healing runs
HealStepLists == { WithIds(l) : l \in ShapeLists({GotoStep, ClickStep, FetchStep}, MaxSteps) }

InitHeal == InitEntry(HealOptions, HealStepLists, {<<>>, <<VarT>>})

NextHeal ==
  NextCommand \/ HealStep \/ CaptureEvent \/ PressEnter \/ ReRecordStep \/ HealDone

SpecHeal == InitHeal /\ [][NextHeal]_vars

\* a healing run of a stored recipe whose two steps carry the same id (the
\* recipe validator of src/src/ui/api-app.ts lines 83-84 asks of an id only
\* that it is a string)
TwinStepLists ==
  { <<[first EXCEPT !.id = <<"s", "1">>], [ClickStep EXCEPT !.id = <<"s", "1">>]>> :
      first \in {GotoStep, ClickStep} }

InitHealTwins == InitEntry(HealOptions, TwinStepLists, {<<>>, <<VarT>>})

SpecHealTwins == InitHealTwins /\ [][NextHeal]_vars

\* applyPhase2Replacements called on its own, as its test calls it
MaxPatchSteps == 3
MaxReplacements == 2

\* step lists with unique ids
PatchBaseLists == { WithIds(l) : l \in ShapeLists({ClickStep, FetchStep}, MaxPatchSteps) }

\* replacements keyed by the id of a step of the longest list, or by an
\* id no list holds
PatchReplacements ==
  { Replacement(<<"s">> \o NatToStr(i), ReNumber(<<"s">> \o NatToStr(i), l)) :
      i \in 1..(MaxPatchSteps + 1), l \in ShapeLists({ClickStep}, 2) }

RECURSIVE ReplacementLists(_)
ReplacementLists(n) ==
  IF n = 0 THEN {<<>>}
  ELSE LET shorter == ReplacementLists(n - 1)
       IN shorter \cup
          { Append(l, r) : l \in {x \in shorter : Len(x) = n - 1}, r \in PatchReplacements }

InitPatch ==
  /\ \E sl \in PatchBaseLists : recipe = MkRecipe(1, "compiled", sl, <<>>)
  /\ cliVars = EmptyMap
  /\ opts = MkOpts("patch", TRUE, FALSE, FALSE, <<>>)
  /\ pc = "patch"
  /\ PlanStart
  /\ browser = "none"
  /\ httpContext = "none"
  /\ surfaceLog = <<>>
  /\ livePageUrl = AboutBlank
  /\ index = 1
  /\ pageUrl = None
  /\ httpUrl = None
  /\ previousStepMode = "none"
  /\ execLog = <<>>
  /\ selectorPatches = EmptyMap
  /\ phase2Replacements \in ReplacementLists(MaxReplacements)
  /\ healStats = [phase1Healed |-> 0, phase2ReRecorded |-> 0]
  /\ isRecording = FALSE
  /\ healRecordBuffer = <<>>
  /\ reNumberedSteps = <<>>
  /\ reIndex = 1
  /\ runResult = None
  /\ mergedSteps = None
  /\ saveCalls = <<>>
  /\ output = <<>>
  /\ cmdResult = None

ApplyPatchEffect(r) ==
  /\ recipe' = [recipe EXCEPT !.steps = r.baseSteps]
  /\ mergedSteps' = Some(r.mergedSteps)

\* one call of applyPhase2Replacements on the recipe's steps
ApplyPatch ==
  /\ pc = "patch"
  /\ ApplyPatchEffect(applyPhase2Replacements(recipe.steps, phase2Replacements))
  /\ pc' = "patched"
  /\ UNCHANGED <<cliVars, opts, planVars, surfaceVars, loopVars, healVars, runResult,
                 saveCalls, output, cmdResult>>

NextPatch == ApplyPatch

SpecPatch == InitPatch /\ [][NextPatch]_vars

\* ------------------------------------------------------------------------
\* resolveRecipeStepTemplatesResult called on its own, as its test calls
\* it, and called again on the step it returned (src/src/core/keychain.ts)
\* ------------------------------------------------------------------------
TodayMinus30 == <<"t", "o", "d", "a", "y", "-", "3", "0", "d">>
\* a day in the year 999
TodayFarBack == <<"t", "o", "d", "a", "y", "-", "3", "7", "5", "0", "0", "0", "d">>
\* a day later than every day a Date can hold
TodayPastEnd == <<"t", "o", "d", "a", "y", "+", "1", "0", "0", "0", "0", "0", "0", "0", "0", "d">>

TodayTokens == {TodayWord, TodayPlus1, TodayMinus30, TodayFarBack, TodayPastEnd}
TemplateTokens == {NowWord, NT, NZ} \cup TodayTokens

\* the strings a step of the inputs can hold: one token behind a prefix, a
\* resolvable token followed by a second token, a token within blanks, a
\* token within a further pair of braces, and a string without token
TemplateStrings ==
  { UrlBase \o Tok(x) : x \in TemplateTokens }
  \cup { UrlBase \o Tok(NT) \o <<"/">> \o Tok(x) : x \in {NowWord, NZ, TodayPlus1} }
  \cup { UrlBase \o Tok(<<" ">> \o NowWord \o <<" ">>),
         UrlBase \o <<"{", "{">> \o Tok(NT) \o <<"}", "}">>,
         UrlBase }

TemplateFillStep(selector, value, guard, effect) ==
  MkStep(<<"s", "1">>, "pw", "fill", None, <<selector>>, Some(value), None,
         <<Check("url_is", guard)>>, <<Check("text_visible", effect)>>)

TemplateSteps ==
  { MkStep(<<"s", "1">>, "pw", "goto", Some(u), <<>>, None, None, <<>>, <<>>) :
      u \in TemplateStrings }
  \cup { TemplateFillStep(<<"#">> \o Tok(NT), Tok(TodayWord), UrlBase \o Tok(NT), Tok(x)) :
           x \in {NT, NZ, NowWord} }
  \cup { TemplateFillStep(<<"#">> \o Tok(x), Tok(NT), UrlBase, VAcme) : x \in {NT, NZ} }
  \cup { TemplateFillStep(<<"#", "a">>, Tok(NT), UrlBase \o Tok(NZ), Tok(NT)) }

\* context.vars of the inputs: nothing, a plain value, values under the
\* names of builtin tokens, and a value that reads as a template
TemplateVarMaps ==
  { EmptyMap,
    MapPut(EmptyMap, NT, VAcme),
    MapPut(MapPut(EmptyMap, NT, VAcme), NowWord, VNum),
    MapPut(MapPut(EmptyMap, TodayWord, VAcme), TodayPlus1, VNum),
    MapPut(EmptyMap, NT, Tok(NowWord)),
    MapPut(MapPut(EmptyMap, NT, VAcme), NZ, VNum) }

\* a TemplateVarError
TemplateVarError(kind, token) == [kind |-> kind, token |-> token]

\* recipe.steps holds the step, cliVars is context.vars; plan will hold the
\* step the first call returns, mergedSteps the step the second call returns
InitTemplate ==
  /\ \E st \in TemplateSteps : recipe = MkRecipe(1, "compiled", <<st>>, <<>>)
  /\ cliVars \in TemplateVarMaps
  /\ opts = MkOpts("template", FALSE, FALSE, FALSE, <<>>)
  /\ pc = "template"
  /\ PlanStart
  /\ browser = "none"
  /\ httpContext = "none"
  /\ surfaceLog = <<>>
  /\ livePageUrl = AboutBlank
  /\ index = 1
  /\ pageUrl = None
  /\ httpUrl = None
  /\ previousStepMode = "none"
  /\ execLog = <<>>
  /\ selectorPatches = EmptyMap
  /\ phase2Replacements = <<>>
  /\ healStats = [phase1Healed |-> 0, phase2ReRecorded |-> 0]
  /\ isRecording = FALSE
  /\ healRecordBuffer = <<>>
  /\ reNumberedSteps = <<>>
  /\ reIndex = 1
  /\ runResult = None
  /\ mergedSteps = None
  /\ saveCalls = <<>>
  /\ output = <<>>
  /\ cmdResult = None

ResolveTemplatesEffect(r) ==
  /\ plan' = IF r.ok THEN Some(MkPlan(cliVars, <<>>, <<>>, <<r.step>>)) ELSE None
  /\ planErr' = IF r.ok THEN None ELSE Some(TemplateVarError(r.kind, r.token))
  /\ pc' = IF r.ok THEN "resolved" ELSE "template_failed"

\* one call of resolveRecipeStepTemplatesResult on the recipe's step
ResolveTemplates ==
  /\ pc = "template"
  /\ ResolveTemplatesEffect(resolveRecipeStepTemplatesResult(recipe.steps[1], cliVars))
  /\ UNCHANGED <<inputVars, varIdx, resolvedVars, warnings, unresolved, calls,
                 surfaceVars, loopVars, healVars, endVars>>

ResolveAgainEffect(r) ==
  /\ mergedSteps' = IF r.ok THEN Some(<<r.step>>) ELSE None
  /\ planErr' = IF r.ok THEN None ELSE Some(TemplateVarError(r.kind, r.token))

\* a second call, with the same context, on the step the first call returned
ResolveAgain ==
  /\ pc = "resolved"
  /\ ResolveAgainEffect(resolveRecipeStepTemplatesResult(plan[1].steps[1], cliVars))
  /\ pc' = "resolved_again"
  /\ UNCHANGED <<inputVars, varIdx, resolvedVars, warnings, unresolved, calls, plan,
                 surfaceVars, loopVars, healVars, runResult, saveCalls, output, cmdResult>>

NextTemplate == ResolveTemplates \/ ResolveAgain

SpecTemplate == InitTemplate /\ [][NextTemplate]_vars

\* ------------------------------------------------------------------------
\* validateGuards and validateEffects called on their own, as their tests
\* call them (src/unnamed/part_009): the chain of andThen links evaluates
\* one check after the other and stops at the first that fails
\* ------------------------------------------------------------------------
MaxChecks == 2

Wildcard(url) == url \o <<"*">>
SelLi == <<"l", "i">>

ValidateGuardShapes ==
  { Check("url_is", UrlA), Check("url_is", Wildcard(UrlA)),
    Check("url_not", Wildcard(UrlA)), Check("url_not", UrlAx),
    Check("text_visible", VAcme) }

\* min_items values: selector|count, and values that lack the selector,
\* the count or the bar, or whose count is no number
ValidateEffectShapes ==
  { Check("url_changed", <<>>), Check("url_changed", UrlAx),
    Check("url_changed", Wildcard(UrlA)),
    Check("text_visible", VAcme),
    Check("min_items", SelLi \o <<"|", "2">>),
    Check("min_items", SelLi \o <<"|">>),
    Check("min_items", <<"|", "2">>),
    Check("min_items", SelLi),
    Check("min_items", SelLi \o <<"|", "x">>) }

ValidateSteps ==
  { MkStep(<<"s", "1">>, "pw", "click", None, <<>>, None, None, gs, <<>>) :
      gs \in ShapeLists(ValidateGuardShapes, MaxChecks) }
  \cup { MkStep(<<"s", "1">>, "pw", "click", None, <<>>, None, None, <<>>, es) :
           es \in ShapeLists(ValidateEffectShapes, MaxChecks) }

\* the contexts: no URL, the empty URL, and URLs
ValidateUrls == {None, Some(<<>>), Some(UrlA), Some(UrlAx), Some(UrlB)}

ValidateOpts(entry, beforeUrl, currentUrl, page) ==
  [entry |-> entry, beforeUrl |-> beforeUrl, currentUrl |-> currentUrl, page |-> page]

ValidateOptions ==
  { ValidateOpts("validateGuards", None, u, p) : u \in ValidateUrls, p \in BOOLEAN }
  \cup { ValidateOpts("validateEffects", b, u, p) :
           b \in {None, Some(UrlA)}, u \in ValidateUrls, p \in BOOLEAN }

\* what the page does when asked: whether the text shows in time, and how
\* many elements the locator counts
PageEnvs(check, page) ==
  { [guardText |-> t, effectText |-> t, itemCount |-> n] :
      t \in (IF page /\ check.type = "text_visible" THEN BOOLEAN ELSE {TRUE}),
      n \in (IF page /\ check.type = "min_items" THEN {0, 2} ELSE {0}) }

\* guardFailed, effectFailed
StepValidationError(kind, step, check) ==
  [kind |-> kind, stepId |-> step.id, checkType |-> check.type, value |-> check.value]

ValidationOk == [ok |-> TRUE, error |-> None]
ValidationErr(e) == [ok |-> FALSE, error |-> Some(e)]

\* recipe.steps holds the step, opts the context; execLog will hold the
\* checks evaluated, runResult the Result
InitValidate ==
  /\ opts \in ValidateOptions
  /\ \E st \in ValidateSteps :
       /\ (opts.entry = "validateGuards" => st.effects = <<>>)
       /\ (opts.entry = "validateEffects" => st.guards = <<>>)
       /\ recipe = MkRecipe(1, "compiled", <<st>>, <<>>)
  /\ cliVars = EmptyMap
  /\ pc = opts.entry
  /\ PlanStart
  /\ browser = "none"
  /\ httpContext = "none"
  /\ surfaceLog = <<>>
  /\ livePageUrl = AboutBlank
  /\ index = 1
  /\ pageUrl = None
  /\ httpUrl = None
  /\ previousStepMode = "none"
  /\ execLog = <<>>
  /\ selectorPatches = EmptyMap
  /\ phase2Replacements = <<>>
  /\ healStats = [phase1Healed |-> 0, phase2ReRecorded |-> 0]
  /\ isRecording = FALSE
  /\ healRecordBuffer = <<>>
  /\ reNumberedSteps = <<>>
  /\ reIndex = 1
  /\ runResult = None
  /\ mergedSteps = None
  /\ saveCalls = <<>>
  /\ output = <<>>
  /\ cmdResult = None

Evaluated(check, passed) == [check |-> check, passed |-> passed]

\* one link of a chain: the check was evaluated; the chain goes on when it
\* passed and ends with the error when it failed
ChainLink(kind, check, passed) ==
  /\ execLog' = Append(execLog, Evaluated(check, passed))
  /\ index' = IF passed THEN index + 1 ELSE index
  /\ pc' = IF passed THEN pc ELSE "validated"
  /\ runResult' = IF passed THEN None
                  ELSE Some(ValidationErr(StepValidationError(kind, recipe.steps[1], check)))

ValidateUnchanged ==
  UNCHANGED <<inputVars, planVars, surfaceVars, pageUrl, httpUrl, previousStepMode,
              healVars, mergedSteps, saveCalls, output, cmdResult>>

\* validateGuards: the link of the next guard
EvaluateNextGuard ==
  /\ pc = "validateGuards"
  /\ index <= Len(recipe.steps[1].guards)
  /\ \E env \in PageEnvs(recipe.steps[1].guards[index], opts.page) :
       ChainLink("guard_failed", recipe.steps[1].guards[index],
                 evaluateGuard(recipe.steps[1].guards[index],
                               GuardCtx(opts.currentUrl, opts.page, env)))
  /\ ValidateUnchanged

\* validateEffects: the link of the next effect
EvaluateNextEffect ==
  /\ pc = "validateEffects"
  /\ index <= Len(recipe.steps[1].effects)
  /\ \E env \in PageEnvs(recipe.steps[1].effects[index], opts.page) :
       ChainLink("effect_failed", recipe.steps[1].effects[index],
                 evaluateEffect(recipe.steps[1].effects[index],
                                EffectCtx(opts.beforeUrl, opts.currentUrl, opts.page, env)))
  /\ ValidateUnchanged

\* validateGuards: every link passed
GuardsValidated ==
  /\ pc = "validateGuards"
  /\ index > Len(recipe.steps[1].guards)
  /\ runResult' = Some(ValidationOk)
  /\ pc' = "validated"
  /\ UNCHANGED <<index, execLog>>
  /\ ValidateUnchanged

\* validateEffects: every link passed
EffectsValidated ==
  /\ pc = "validateEffects"
  /\ index > Len(recipe.steps[1].effects)
  /\ runResult' = Some(ValidationOk)
  /\ pc' = "validated"
  /\ UNCHANGED <<index, execLog>>
  /\ ValidateUnchanged

NextValidate ==
  EvaluateNextGuard \/ EvaluateNextEffect \/ GuardsValidated \/ EffectsValidated

SpecValidate == InitValidate /\ [][NextValidate]_vars

\* ------------------------------------------------------------------------
\* Download path allocation (src/src/commands/run.ts, ensureUniquePathResult)
\* ------------------------------------------------------------------------
\* The directory is saveCalls: its entries in creation order, each with the
\* path and who created it.  The callers are calls: each with its target,
\* the count of its loop and its Result once it returned.
MAX_UNIQUE_PATH_ATTEMPTS == 2
Callers == 2

\* path.parse of the targets: name and extension
ParsedTargets ==
  { [name |-> <<"a">>, ext |-> <<".", "p">>],
    [name |-> <<"a", "-", "1">>, ext |-> <<".", "p">>] }

\* line 341-342: the candidate of an iteration
CandidatePath(parsed, count) ==
  IF count = 0 THEN parsed.name \o parsed.ext
  ELSE parsed.name \o <<"-">> \o NatToStr(count) \o parsed.ext

CandidatePaths ==
  { CandidatePath(t, n) : t \in ParsedTargets, n \in 0..MAX_UNIQUE_PATH_ATTEMPTS }

DirEntry(path, by) == [path |-> path, by |-> by]
InDir(dir, path) == \E i \in DOMAIN dir : dir[i].path = path

\* an open that creates the file or truncates the one that exists (flag "w")
fsOpenW(dir, path, by, fault) ==
  IF fault THEN [errno |-> "EACCES", dir |-> dir]
  ELSE [errno |-> "none", dir |-> Append(dir, DirEntry(path, by))]

\* line 344: fs.open(candidate, "wx"), one atomic operation of the file
\* system: it fails with EEXIST when the path exists, it can fail otherwise
\* (fault), else it creates the file
fsOpenWx(dir, path, by, fault) ==
  IF InDir(dir, path) THEN [errno |-> "EEXIST", dir |-> dir]
  ELSE IF fault THEN [errno |-> "EACCES", dir |-> dir]
  ELSE [errno |-> "none", dir |-> Append(dir, DirEntry(path, by))]

PathCaller(parsed) == [parsed |-> parsed, count |-> 0, result |-> None]
PathOk(path) == [ok |-> TRUE, value |-> path, error |-> ""]
PathErr(error) == [ok |-> FALSE, value |-> <<>>, error |-> error]

\* lines 340-352: what one iteration of the loop makes of the open's
\* outcome; after the last iteration the function returns its error
\* (lines 354-356)
ensureUniquePathIteration(caller, errno) ==
  IF errno = "none"
  THEN [caller EXCEPT !.result = Some(PathOk(CandidatePath(caller.parsed, caller.count)))]
  ELSE IF errno # "EEXIST" THEN [caller EXCEPT !.result = Some(PathErr(errno))]
  ELSE IF caller.count + 1 > MAX_UNIQUE_PATH_ATTEMPTS
  THEN [caller EXCEPT !.count = caller.count + 1,
                      !.result = Some(PathErr("no_unique_path"))]
  ELSE [caller EXCEPT !.count = caller.count + 1]

InitPath ==
  /\ recipe = MkRecipe(1, "compiled", <<>>, <<>>)
  /\ cliVars = EmptyMap
  /\ opts = MkOpts("ensureUniquePath", FALSE, FALSE, FALSE, <<>>)
  /\ pc = "allocating"
  /\ varIdx = 1
  /\ resolvedVars = EmptyMap
  /\ warnings = <<>>
  /\ unresolved = <<>>
  /\ calls \in [1..Callers -> {PathCaller(t) : t \in ParsedTargets}]
  /\ planErr = None
  /\ plan = None
  /\ browser = "none"
  /\ httpContext = "none"
  /\ surfaceLog = <<>>
  /\ livePageUrl = AboutBlank
  /\ index = 1
  /\ pageUrl = None
  /\ httpUrl = None
  /\ previousStepMode = "none"
  /\ execLog = <<>>
  /\ selectorPatches = EmptyMap
  /\ phase2Replacements = <<>>
  /\ healStats = [phase1Healed |-> 0, phase2ReRecorded |-> 0]
  /\ isRecording = FALSE
  /\ healRecordBuffer = <<>>
  /\ reNumberedSteps = <<>>
  /\ reIndex = 1
  /\ runResult = None
  /\ mergedSteps = None
  /\ saveCalls = <<>>
  /\ output = <<>>
  /\ cmdResult = None

PathUnchanged ==
  UNCHANGED <<inputVars, pc, varIdx, resolvedVars, warnings, unresolved, planErr, plan,
              surfaceVars, loopVars, healVars, runResult, mergedSteps, output, cmdResult>>

TryCandidateEffect(c, opened) ==
  /\ saveCalls' = opened.dir
  /\ calls' = [calls EXCEPT ![c] = ensureUniquePathIteration(calls[c], opened.errno)]

\* one iteration of the loop of one caller; the callers interleave between
\* their awaits
TryCandidate ==
  /\ pc = "allocating"
  /\ \E c \in 1..Callers :
       /\ calls[c].result = None
       /\ \E fault \in BOOLEAN :
            TryCandidateEffect(c, fsOpenWx(saveCalls,
                                           CandidatePath(calls[c].parsed, calls[c].count),
                                           c, fault))
  /\ PathUnchanged

\* another process creates a file in the directory
ForeignCreate ==
  /\ pc = "allocating"
  /\ \E path \in CandidatePaths :
       /\ ~InDir(saveCalls, path)
       /\ saveCalls' = Append(saveCalls, DirEntry(path, 0))
  /\ calls' = calls
  /\ PathUnchanged

NextPath == TryCandidate \/ ForeignCreate

SpecPath == InitPath /\ [][NextPath]_vars

\* ------------------------------------------------------------------------
\* HTTP requests and downloads (src/src/commands/run.ts,
\* src/src/core/compile-heuristic.ts)
\* ------------------------------------------------------------------------
\* the options runHttpStepResult hands to context.fetch (lines 477-483)
FetchRequest(url, method, data) == [url |-> url, method |-> method, data |-> data]

\* runHttpStepResult lines 477-483: the request of a fetch step
fetchRequest(step) == FetchRequest(step.url, normalizeHttpMethod(step.method), step.body)

\* the index after /\s*/ matched from index i
RECURSIVE SkipSpaces(_, _)
SkipSpaces(s, i) == IF i <= Len(s) /\ s[i] = " " THEN SkipSpaces(s, i + 1) ELSE i

\* the index after the longest run from index i of characters other than stop
RECURSIVE RunEnd(_, _, _)
RunEnd(s, i, stop) == IF i > Len(s) \/ s[i] = stop THEN i ELSE RunEnd(s, i + 1, stop)

\* /key\s*=/i at index i: the index after the "=", 0 when it does not match
EqAfter(s, i, key) ==
  With(LiteralAt(s, i, key), LAMBDA a :
    IF a = 0 THEN 0
    ELSE With(SkipSpaces(s, a), LAMBDA b :
           IF b <= Len(s) /\ s[b] = "=" THEN b + 1 ELSE 0))

\* capture.trim().replace(/^"(.*)"$/, "$1")
Unquote(s) ==
  IF Len(s) >= 2 /\ s[1] = "\"" /\ s[Len(s)] = "\"" THEN SubSeq(s, 2, Len(s) - 1) ELSE s

\* /filename\*\s*=\s*UTF-8''([^;]+)/i at index i: the capture
FilenameStarAt(s, i) ==
  With(EqAfter(s, i, <<"f", "i", "l", "e", "n", "a", "m", "e", "*">>), LAMBDA a :
    IF a = 0 THEN None
    ELSE With(LiteralAt(s, SkipSpaces(s, a), <<"u", "t", "f", "-", "8", "'", "'">>), LAMBDA q :
           IF q = 0 \/ RunEnd(s, q, ";") = q THEN None
           ELSE Some(SubSeq(s, q, RunEnd(s, q, ";") - 1))))

\* /filename\s*=\s*"([^"]+)"/i at index i: the capture
FilenameQuotedAt(s, i) ==
  With(EqAfter(s, i, <<"f", "i", "l", "e", "n", "a", "m", "e">>), LAMBDA a :
    IF a = 0 THEN None
    ELSE With(SkipSpaces(s, a), LAMBDA p :
           IF p > Len(s) \/ s[p] # "\"" \/ RunEnd(s, p + 1, "\"") = p + 1
                \/ RunEnd(s, p + 1, "\"") > Len(s)
           THEN None
           ELSE Some(SubSeq(s, p + 1, RunEnd(s, p + 1, "\"") - 1))))

\* /filename\s*=\s*([^;]+)/i at index i: the capture; when nothing follows
\* the white space, the group takes the last blank of it
FilenameBareAt(s, i) ==
  With(EqAfter(s, i, <<"f", "i", "l", "e", "n", "a", "m", "e">>), LAMBDA a :
    IF a = 0 THEN None
    ELSE With(SkipSpaces(s, a), LAMBDA p :
           IF RunEnd(s, p, ";") > p THEN Some(SubSeq(s, p, RunEnd(s, p, ";") - 1))
           ELSE IF p > a THEN Some(<<" ">>)
           ELSE None))

\* String.prototype.match: the capture at the first index where the
\* pattern matches
FirstCapture(s, At(_, _)) ==
  IF \E i \in 1..Len(s) : At(s, i) # None
  THEN At(s, CHOOSE i \in 1..Len(s) :
               At(s, i) # None /\ \A j \in 1..(i - 1) : At(s, j) = None)
  ELSE None

\* decodeURIComponent over the escapes %20, %25 and %2F; any other "%"
\* makes it throw
DecodeOk(value) == [ok |-> TRUE, value |-> value]
DecodeThrows == [ok |-> FALSE, value |-> <<>>]
RECURSIVE decodeURIComponent(_)
decodeURIComponent(s) ==
  IF s = <<>> THEN DecodeOk(<<>>)
  ELSE IF Head(s) # "%"
  THEN With(decodeURIComponent(Tail(s)), LAMBDA rest :
         IF rest.ok THEN DecodeOk(<<Head(s)>> \o rest.value) ELSE DecodeThrows)
  ELSE IF Len(s) < 3 \/ toLowerCase(SubSeq(s, 2, 3)) \notin {<<"2", "0">>, <<"2", "5">>, <<"2", "f">>}
  THEN DecodeThrows
  ELSE With(decodeURIComponent(SubSeq(s, 4, Len(s))), LAMBDA rest :
         IF ~rest.ok THEN DecodeThrows
         ELSE DecodeOk(<<IF SubSeq(s, 2, 3) = <<"2", "0">> THEN " "
                         ELSE IF SubSeq(s, 2, 3) = <<"2", "5">> THEN "%" ELSE "/">>
                       \o rest.value))

\* lines 298-304: the quoted and the bare filename parameter
FilenameParameter(contentDisposition) ==
  IF FirstCapture(contentDisposition, FilenameQuotedAt) # None
  THEN FirstCapture(contentDisposition, FilenameQuotedAt)
  ELSE IF FirstCapture(contentDisposition, FilenameBareAt) # None
  THEN Some(Trim(FirstCapture(contentDisposition, FilenameBareAt)[1]))
  ELSE None

\* lines 290-308: parseContentDispositionFilename
parseContentDispositionFilename(contentDisposition) ==
  IF contentDisposition = None \/ contentDisposition[1] = <<>> THEN None
  ELSE With(FirstCapture(contentDisposition[1], FilenameStarAt), LAMBDA star :
         IF star # None /\ decodeURIComponent(Unquote(Trim(star[1]))).ok
         THEN Some(decodeURIComponent(Unquote(Trim(star[1]))).value)
         ELSE FilenameParameter(contentDisposition[1]))

\* lines 310-313: sanitizeFilename
HostileChars == {"/", "\\", "?", "%", "*", ":", "|", "\"", "<", ">"}
sanitizeFilename(filename) ==
  With(Trim([i \in 1..Len(filename) |->
               IF filename[i] \in HostileChars THEN "_" ELSE filename[i]]),
       LAMBDA sanitized : IF sanitized # <<>> THEN sanitized ELSE <<"d", "o", "w", "n", "l", "o", "a", "d">>)

\* lines 315-335: extensionFromContentType
extensionFromContentType(contentType) ==
  With(IF contentType = None THEN <<>> ELSE toLowerCase(contentType[1]), LAMBDA normalized :
    IF Includes(normalized, <<"a", "p", "p", "l", "i", "c", "a", "t", "i", "o", "n", "/", "p", "d", "f">>) THEN <<".", "p", "d", "f">>
    ELSE IF Includes(normalized, <<"t", "e", "x", "t", "/", "c", "s", "v">>) THEN <<".", "c", "s", "v">>
    ELSE IF Includes(normalized, <<"a", "p", "p", "l", "i", "c", "a", "t", "i", "o", "n", "/", "v", "n", "d", ".", "o", "p", "e", "n", "x", "m", "l", "f", "o", "r", "m", "a", "t", "s", "-", "o", "f", "f", "i", "c", "e", "d", "o", "c", "u", "m", "e", "n", "t", ".", "s", "p", "r", "e", "a", "d", "s", "h", "e", "e", "t", "m", "l", ".", "s", "h", "e", "e", "t">>)
              \/ Includes(normalized, <<"a", "p", "p", "l", "i", "c", "a", "t", "i", "o", "n", "/", "v", "n", "d", ".", "m", "s", "-", "e", "x", "c", "e", "l">>)
    THEN <<".", "x", "l", "s", "x">>
    ELSE IF Includes(normalized, <<"a", "p", "p", "l", "i", "c", "a", "t", "i", "o", "n", "/", "v", "n", "d", ".", "o", "p", "e", "n", "x", "m", "l", "f", "o", "r", "m", "a", "t", "s", "-", "o", "f", "f", "i", "c", "e", "d", "o", "c", "u", "m", "e", "n", "t", ".", "w", "o", "r", "d", "p", "r", "o", "c", "e", "s", "s", "i", "n", "g", "m", "l", ".", "d", "o", "c", "u", "m", "e", "n", "t">>)
              \/ Includes(normalized, <<"a", "p", "p", "l", "i", "c", "a", "t", "i", "o", "n", "/", "m", "s", "w", "o", "r", "d">>)
    THEN <<".", "d", "o", "c", "x">>
    ELSE IF Includes(normalized, <<"a", "p", "p", "l", "i", "c", "a", "t", "i", "o", "n", "/", "z", "i", "p">>) THEN <<".", "z", "i", "p">>
    ELSE <<>>)

\* new URL(url).pathname: the text from the end of the host to the query
\* or fragment, "/" when it is empty
RECURSIVE PathEnd(_, _)
PathEnd(s, i) == IF i > Len(s) \/ s[i] \in {"?", "#"} THEN i ELSE PathEnd(s, i + 1)
UrlPathname(text) ==
  With(HostEnd(text, IndexOfText(text, <<":">>, 1) + 3), LAMBDA from :
    IF PathEnd(text, from) = from THEN <<"/">>
    ELSE SubSeq(text, from, PathEnd(text, from) - 1))

\* path.basename: the text after the last "/", trailing "/" dropped
RECURSIVE StripSlashes(_)
StripSlashes(s) ==
  IF s # <<>> /\ s[Len(s)] = "/" THEN StripSlashes(SubSeq(s, 1, Len(s) - 1)) ELSE s
RECURSIVE AfterLastSlash(_)
AfterLastSlash(s) ==
  IF s = <<>> \/ s[Len(s)] = "/" THEN <<>>
  ELSE AfterLastSlash(SubSeq(s, 1, Len(s) - 1)) \o <<s[Len(s)]>>
basename(p) == AfterLastSlash(StripSlashes(p))

\* lines 375-383: urlBasename; an http URL the constructor rejects has none
urlBasename(responseUrl) ==
  IF UrlHostname(responseUrl) = None \/ UrlHostname(responseUrl) = Some(<<>>) THEN None
  ELSE IF basename(UrlPathname(responseUrl)) = <<>> THEN None
  ELSE Some(basename(UrlPathname(responseUrl)))

\* lines 366-369: shouldSave
shouldSave(step, response) ==
  \/ step.download = Some(TRUE)
  \/ response.contentDisposition # None
       /\ Includes(toLowerCase(response.contentDisposition[1]), <<"a", "t", "t", "a", "c", "h", "m", "e", "n", "t">>)
  \/ isDocumentDownload(response.url)

\* lines 373-388: the name saveHttpDownloadIfNeeded saves under
downloadFilename(step, response) ==
  sanitizeFilename(
    IF parseContentDispositionFilename(response.contentDisposition) # None
    THEN parseContentDispositionFilename(response.contentDisposition)[1]
    ELSE IF urlBasename(response.url) # None THEN urlBasename(response.url)[1]
    ELSE step.id \o extensionFromContentType(response.contentType))

\* ------------------------------------------------------------------------
\* One fetch step on its surface: the request it issues and the name its
\* download is saved under.  calls holds the request handed to
\* context.fetch, execLog the response, saveCalls the name saved under.
\* ------------------------------------------------------------------------
MkFetchStep(id, url, method, body, download) ==
  [id |-> id, mode |-> "http", action |-> "fetch", url |-> url, method |-> method,
   body |-> body, download |-> download, selectorVariants |-> <<>>, value |-> None,
   key |-> None, guards |-> <<>>, effects |-> <<>>]

FetchMethods ==
  {None, Some(<<>>), Some(<<" ", " ">>), Some(<<" ", "g", "e", "t", " ">>), Some(<<"G", "E", "T">>), Some(<<"H", "e", "a", "d">>),
   Some(<<"p", "o", "s", "t">>), Some(<<"P", "U", "T", " ">>)}

FetchSteps ==
  { MkFetchStep(<<"s", "1">>, UrlAx, m, b, d) :
      m \in FetchMethods, b \in {None, Some(<<"x", "=", "1">>)}, d \in {None, Some(TRUE)} }

ContentDispositions ==
  { None,
    Some(<<"a", "t", "t", "a", "c", "h", "m", "e", "n", "t">>),
    Some(<<"a", "t", "t", "a", "c", "h", "m", "e", "n", "t", ";", " ", "f", "i", "l", "e", "n", "a", "m", "e", "*", "=", "U", "T", "F", "-", "8", "'", "'", "r", "%", "2", "0", "Q", ".", "p", "d", "f">>),
    Some(<<"a", "t", "t", "a", "c", "h", "m", "e", "n", "t", ";", " ", "f", "i", "l", "e", "n", "a", "m", "e", "=", "\"", "q", ".", "p", "d", "f", "\"", ";", " ", "f", "i", "l", "e", "n", "a", "m", "e", "*", "=", "u", "t", "f", "-", "8", "'", "'", "r", "%", "2", "F", "s", ".", "p", "d", "f">>),
    Some(<<"a", "t", "t", "a", "c", "h", "m", "e", "n", "t", ";", " ", "f", "i", "l", "e", "n", "a", "m", "e", "*", "=", "U", "T", "F", "-", "8", "'", "'", "r", "%", "z", "z", ";", " ", "f", "i", "l", "e", "n", "a", "m", "e", "=", "b", ".", "p", "d", "f">>),
    Some(<<"a", "t", "t", "a", "c", "h", "m", "e", "n", "t", ";", " ", "f", "i", "l", "e", "n", "a", "m", "e", "*", "=", "U", "T", "F", "-", "8", "'", "'", "r", "%", ";", " ", "F", "I", "L", "E", "N", "A", "M", "E", " ", "=", " ", "\"", "q", " ", "r", ".", "p", "d", "f", "\"">>),
    Some(<<"i", "n", "l", "i", "n", "e", ";", " ", "f", "i", "l", "e", "n", "a", "m", "e", "=", "b", ".", "p", "d", "f", " ", ";", " ", "x", "=", "1">>),
    Some(<<"a", "t", "t", "a", "c", "h", "m", "e", "n", "t", ";", " ", "f", "i", "l", "e", "n", "a", "m", "e", "=", "b", ".", "p", "d", "f", ";", " ", "f", "i", "l", "e", "n", "a", "m", "e", "=", "\"", "q", ".", "p", "d", "f", "\"">>),
    Some(<<"a", "t", "t", "a", "c", "h", "m", "e", "n", "t", ";", " ", "f", "i", "l", "e", "n", "a", "m", "e", "=", " ">>),
    Some(<<"a", "t", "t", "a", "c", "h", "m", "e", "n", "t", ";", " ", "f", "i", "l", "e", "n", "a", "m", "e", "*", "=", "U", "T", "F", "-", "8", "'", "'", "\"", "\"">>) }

ResponseUrls ==
  { <<"h", "t", "t", "p", ":", "/", "/", "a", "/">>, <<"h", "t", "t", "p", ":", "/", "/", "a", "/", "a", "p", "i", "/", "e", "x", "p", "o", "r", "t", "?", "i", "d", "=", "5">>, <<"h", "t", "t", "p", ":", "/", "/", "a", "/", "f", "i", "l", "e", "s", "/", "r", "%", "2", "0", "Q", ".", "p", "d", "f">>, <<"h", "t", "t", "p", ":", "/", "/", "a", "/", "d", "/">> }

ContentTypes == { None, Some(<<"A", "p", "p", "l", "i", "c", "a", "t", "i", "o", "n", "/", "P", "D", "F", ";", " ", "c", "h", "a", "r", "s", "e", "t", "=", "u", "t", "f", "-", "8">>), Some(<<"t", "e", "x", "t", "/", "h", "t", "m", "l">>) }

Responses ==
  { [url |-> u, contentDisposition |-> cd, contentType |-> ct] :
      u \in ResponseUrls, cd \in ContentDispositions, ct \in ContentTypes }

InitFetch ==
  /\ \E st \in FetchSteps : recipe = MkRecipe(1, "compiled", <<st>>, <<>>)
  /\ cliVars = EmptyMap
  /\ opts = MkOpts("runHttpStep", FALSE, FALSE, FALSE, <<>>)
  /\ pc = "fetch"
  /\ PlanStart
  /\ browser = "none"
  /\ httpContext = "open"
  /\ surfaceLog = <<>>
  /\ livePageUrl = AboutBlank
  /\ index = 1
  /\ pageUrl = None
  /\ httpUrl = None
  /\ previousStepMode = "none"
  /\ execLog = <<>>
  /\ selectorPatches = EmptyMap
  /\ phase2Replacements = <<>>
  /\ healStats = [phase1Healed |-> 0, phase2ReRecorded |-> 0]
  /\ isRecording = FALSE
  /\ healRecordBuffer = <<>>
  /\ reNumberedSteps = <<>>
  /\ reIndex = 1
  /\ runResult = None
  /\ mergedSteps = None
  /\ saveCalls = <<>>
  /\ output = <<>>
  /\ cmdResult = None

FetchUnchanged ==
  UNCHANGED <<inputVars, varIdx, resolvedVars, warnings, unresolved, planErr, plan,
              surfaceVars, index, pageUrl, httpUrl, previousStepMode, healVars,
              runResult, mergedSteps, output, cmdResult>>

\* runHttpStepResult lines 476-484: the request is issued and answered
IssueRequest ==
  /\ pc = "fetch"
  /\ calls' = <<fetchRequest(recipe.steps[1])>>
  /\ \E response \in Responses : execLog' = <<response>>
  /\ pc' = "fetched"
  /\ saveCalls' = saveCalls
  /\ FetchUnchanged

\* saveHttpDownloadIfNeeded lines 359-388 up to the choice of the name
SaveDownload ==
  /\ pc = "fetched"
  /\ IF shouldSave(recipe.steps[1], execLog[1])
     THEN /\ saveCalls' = <<downloadFilename(recipe.steps[1], execLog[1])>>
          /\ pc' = "saved"
     ELSE /\ saveCalls' = saveCalls
          /\ pc' = "not_saved"
  /\ UNCHANGED <<calls, execLog>>
  /\ FetchUnchanged

NextFetch == IssueRequest \/ SaveDownload

SpecFetch == InitFetch /\ [][NextFetch]_vars

(***************************************************************************)
(* The recipe validator of the UI (src/ui/api-app.ts) and the compilation  *)
(* of recorded events (src/core/compile-heuristic.ts)                      *)
(***************************************************************************)

ValidSources == {"compiled", "repaired", "healed"}
ValidModes == {"http", "pw"}
ValidActions == {"goto", "click", "fill", "press", "fetch", "extract", "ensure_login"}
BrowserOnlyActions == {"goto", "click", "fill", "press"}
ValidGuardTypes == {"url_not", "url_is", "text_visible"}
ValidEffectTypes == {"url_changed", "text_visible", "min_items"}

\* api-app.ts lines 79-144: the body of isValidRecipe's loop over the steps
\* (the fields of a modelled step have the types the loop asks for)
isValidStep(step) ==
  /\ step.mode \in ValidModes
  /\ step.action \in ValidActions
  /\ \A i \in 1..Len(step.guards) : step.guards[i].type \in ValidGuardTypes
  /\ \A i \in 1..Len(step.effects) : step.effects[i].type \in ValidEffectTypes
  /\ ~(step.mode = "http" /\ step.action \in BrowserOnlyActions)
  /\ (step.action \in {"click", "fill"} => step.selectorVariants # <<>>)
  /\ (step.action = "fill" => step.value # None /\ step.value[1] # <<>>)
  /\ (step.action = "press" => step.key # None /\ step.key[1] # <<>>)
  /\ (step.action \in {"goto", "fetch"} => step.url # None /\ step.url[1] # <<>>)

\* api-app.ts lines 62-160: isValidRecipe
isValidRecipe(value) ==
  /\ value.source \in ValidSources
  /\ \A i \in 1..Len(value.steps) : isValidStep(value.steps[i])

\* the steps a client submits
SubmittedShapes ==
  { GotoStep, ClickStep, FetchStep, FillNoValue,
    MkStep(<<>>, "http", "goto", Some(UrlA), <<>>, None, None, <<>>, <<>>),
    MkStep(<<>>, "http", "click", None, <<SelA>>, None, None, <<>>, <<>>),
    MkStep(<<>>, "http", "fill", None, <<SelA>>, Some(VAcme), None, <<>>, <<>>),
    MkStep(<<>>, "http", "press", None, <<>>, None, Some(KeyEnter), <<>>, <<>>),
    MkStep(<<>>, "http", "extract", None, <<>>, None, None, <<>>, <<>>) }

MaxSubmitted == 2
SubmittedRecipes ==
  { MkRecipe(1, "compiled", WithIds(l), <<>>) :
      l \in ShapeLists(SubmittedShapes, MaxSubmitted) \ {<<>>} }

UrlPdf == UrlBase \o <<"r", ".", "P", "D", "F">>
Payload == <<"q", "=", "1">>

\* the events of a recording
RecordedEvents ==
  { MkEvent("navigation", UrlA, None, None, None),
    MkEvent("click", UrlA, Some(<<SelA>>), None, None),
    MkEvent("input", UrlA, Some(<<SelA>>), Some(VAcme), None),
    MkRequestEvent(UrlA, Some(UrlA), None, None, TRUE),
    MkRequestEvent(UrlA, Some(UrlPdf), Some(<<"g", "e", "t">>), None, FALSE),
    MkRequestEvent(UrlA, Some(UrlAx), Some(<<"p", "o", "s", "t">>), Some(Payload), TRUE),
    MkRequestEvent(UrlA, Some(UrlAx), Some(<<"G", "E", "T">>), Some(Payload), TRUE),
    MkRequestEvent(UrlA, Some(UrlB), Some(<<"G", "E", "T">>), None, FALSE) }

MaxRecorded == 2
Recordings == ShapeLists(RecordedEvents, MaxRecorded)

InitCompile ==
  /\ recipe \in SubmittedRecipes
  /\ cliVars = EmptyMap
  /\ opts = MkOpts("compile", FALSE, FALSE, FALSE, <<>>)
  /\ pc = "submitted"
  /\ PlanStart
  /\ browser = "none"
  /\ httpContext = "none"
  /\ surfaceLog = <<>>
  /\ livePageUrl = AboutBlank
  /\ index = 1
  /\ pageUrl = None
  /\ httpUrl = None
  /\ previousStepMode = "none"
  /\ execLog = <<>>
  /\ selectorPatches = EmptyMap
  /\ phase2Replacements = <<>>
  /\ healStats = [phase1Healed |-> 0, phase2ReRecorded |-> 0]
  /\ isRecording = FALSE
  /\ healRecordBuffer \in Recordings
  /\ reNumberedSteps = <<>>
  /\ reIndex = 1
  /\ runResult = None
  /\ mergedSteps = None
  /\ saveCalls = <<>>
  /\ output = <<>>
  /\ cmdResult = None

CompileUnchanged ==
  UNCHANGED <<inputVars, planVars, surfaceVars, loopVars, healVars, runResult, output>>

\* api-app.ts lines 230-248: PUT /recipes/:id with the body in recipe
PutRecipe ==
  /\ pc = "submitted"
  /\ IF ~isValidRecipe(recipe)
     THEN /\ cmdResult' = Some(CmdErr("invalid recipe payload"))
          /\ saveCalls' = saveCalls
     ELSE /\ saveCalls' = Append(saveCalls, recipe)
          /\ \E saved \in BOOLEAN :
               cmdResult' = Some(IF saved THEN CmdOk(None) ELSE CmdErr("recipe_store"))
  /\ pc' = "answered"
  /\ mergedSteps' = mergedSteps
  /\ CompileUnchanged

\* compile-heuristic.ts lines 284-330: the recording in healRecordBuffer is
\* compiled to steps
CompileEvents ==
  /\ opts.entry = "compile"
  /\ mergedSteps = None
  /\ mergedSteps' = Some(eventsToSteps(healRecordBuffer))
  /\ UNCHANGED <<pc, saveCalls, cmdResult>>
  /\ CompileUnchanged

NextCompile == PutRecipe \/ CompileEvents

SpecCompile == InitCompile /\ [][NextCompile]_vars

(***************************************************************************)
(* One guarded step handed to the step functions of the two runners, with  *)
(* and without healing (src/src/commands/run.ts lines 457-517, 594-601)    *)
(***************************************************************************)

RelaxGuardShapes ==
  { Check("url_is", UrlAx), Check("url_is", Wildcard(UrlB)),
    Check("url_not", UrlA), Check("text_visible", VAcme) }

RelaxSteps ==
  { MkStep(<<"s", "1">>, m, IF m = "http" THEN "fetch" ELSE "goto", Some(UrlAx), <<>>,
           None, None, g, <<>>) :
      m \in {"http", "pw"}, g \in ShapeLists(RelaxGuardShapes, MaxChecks) }

InitRelax ==
  /\ \E st \in RelaxSteps : recipe = MkRecipe(1, "compiled", <<st>>, <<>>)
  /\ cliVars = EmptyMap
  /\ \E heal \in BOOLEAN : opts = MkOpts("step", heal, FALSE, FALSE, <<>>)
  /\ pc = "step"
  /\ PlanStart
  /\ browser = "open"
  /\ httpContext = "open"
  /\ surfaceLog = <<>>
  /\ livePageUrl \in PageUrls
  /\ index = 1
  /\ pageUrl = Some(livePageUrl)
  /\ httpUrl = None
  /\ previousStepMode = recipe.steps[1].mode
  /\ execLog = <<>>
  /\ selectorPatches = EmptyMap
  /\ phase2Replacements = <<>>
  /\ healStats = [phase1Healed |-> 0, phase2ReRecorded |-> 0]
  /\ isRecording = FALSE
  /\ healRecordBuffer = <<>>
  /\ reNumberedSteps = <<>>
  /\ reIndex = 1
  /\ runResult = None
  /\ mergedSteps = None
  /\ saveCalls = <<>>
  /\ output = <<>>
  /\ cmdResult = None

RelaxState ==
  RunnerState(TRUE, httpContext, pageUrl, httpUrl, previousStepMode, livePageUrl)

\* what the step function returned, with what the page did meanwhile
StepReturn(error, env) == [error |-> error, env |-> env]

RelaxUnchanged ==
  UNCHANGED <<inputVars, planVars, surfaceVars, index, pageUrl, httpUrl, previousStepMode,
              healVars, endVars>>

\* lines 457-490: runHttpStepResult on the step
GuardedHttpStep ==
  /\ pc = "step"
  /\ recipe.steps[1].mode = "http"
  /\ \E env \in StepEnvs(recipe.steps[1], RelaxState, opts.heal) :
       execLog' = <<StepReturn(runHttpStepResult(recipe.steps[1], pageUrl, pageUrl,
                                               opts.heal, env).error, env)>>
  /\ pc' = "returned"
  /\ RelaxUnchanged

\* lines 594-601: the browser step of the runner without healing
GuardedPwStep ==
  /\ pc = "step"
  /\ recipe.steps[1].mode = "pw"
  /\ ~opts.heal
  /\ \E env \in StepEnvs(recipe.steps[1], RelaxState, FALSE) :
       execLog' = <<StepReturn(PwGuardedRun(recipe.steps[1], RelaxState, <<>>, env).error,
                             env)>>
  /\ pc' = "returned"
  /\ RelaxUnchanged

\* lines 492-551: executePwStepWithHealResult on the step
GuardedPwStepWithHeal ==
  /\ pc = "step"
  /\ recipe.steps[1].mode = "pw"
  /\ opts.heal
  /\ \E env \in StepEnvs(recipe.steps[1], RelaxState, TRUE) :
       execLog' =
         <<StepReturn(executePwStepWithHealResult(
                      recipe.steps[1], pageUrl, livePageUrl,
                      [first |-> env, heal |-> [healed |-> FALSE, newSelectors |-> <<>>],
                       second |-> env]).error,
                    env)>>
  /\ pc' = "returned"
  /\ RelaxUnchanged

NextRelax == GuardedHttpStep \/ GuardedPwStep \/ GuardedPwStepWithHeal

SpecRelax == InitRelax /\ [][NextRelax]_vars

(***************************************************************************)
(* Selector rediscovery (src/src/core/record-store.ts lines 45-217)        *)
(***************************************************************************)

\* [\w:-]
IsIdChar(c) ==
  c \in Range(Letters) \cup Range(Capitals) \cup Range(Digits) \cup {"_", ":", "-"}
RECURSIVE IdRunEnd(_, _)
IdRunEnd(s, i) == IF i > Len(s) \/ ~IsIdChar(s[i]) THEN i ELSE IdRunEnd(s, i + 1)

\* /#([\w:-]+)/ at index i: the capture
IdAt(s, i) ==
  IF s[i] = "#" /\ IdRunEnd(s, i + 1) > i + 1
  THEN Some(SubSeq(s, i + 1, IdRunEnd(s, i + 1) - 1)) ELSE None

\* /<prefix>([^"]+)<suffix>/ at index i, the suffix starting with the
\* closing quote: the capture
QuotedAt(s, i, prefix, suffix) ==
  IF i + Len(prefix) - 1 > Len(s) \/ SubSeq(s, i, i + Len(prefix) - 1) # prefix THEN None
  ELSE With(RunEnd(s, i + Len(prefix), "\""), LAMBDA e :
         IF e = i + Len(prefix) \/ e + Len(suffix) - 1 > Len(s)
              \/ SubSeq(s, e, e + Len(suffix) - 1) # suffix
         THEN None
         ELSE Some(SubSeq(s, i + Len(prefix), e - 1)))

PlaceholderAt(s, i) == QuotedAt(s, i, <<"p", "l", "a", "c", "e", "h", "o", "l", "d", "e", "r", "=", "\"">>, <<"\"">>)
NameAt(s, i) == QuotedAt(s, i, <<"[", "n", "a", "m", "e", "=", "\"">>, <<"\"", "]">>)
HasTextAt(s, i) == QuotedAt(s, i, <<"h", "a", "s", "-", "t", "e", "x", "t", "(", "\"">>, <<"\"", ")">>)

\* lines 65-76: merged.x ??= h.x over the selectors in order
FirstHint(selectors, At(_, _)) ==
  IF \E k \in 1..Len(selectors) : FirstCapture(selectors[k], At) # None
  THEN FirstCapture(selectors[CHOOSE k \in 1..Len(selectors) :
                                /\ FirstCapture(selectors[k], At) # None
                                /\ \A j \in 1..(k - 1) :
                                     FirstCapture(selectors[j], At) = None],
                    At)
  ELSE None

\* lines 45-76: collectHints over extractHintsFromSelector (the role hint
\* goes to the prompt only)
collectHints(selectors) ==
  [id |-> FirstHint(selectors, IdAt),
   placeholder |-> FirstHint(selectors, PlaceholderAt),
   name |-> FirstHint(selectors, NameAt),
   text |-> FirstHint(selectors, HasTextAt)]

\* lines 78-80: escapeCssValue
RECURSIVE escapeCssValue(_)
escapeCssValue(value) ==
  IF value = <<>> THEN <<>>
  ELSE (IF Head(value) \in {"\"", "\\"} THEN <<"\\", Head(value)>> ELSE <<Head(value)>>)
         \o escapeCssValue(Tail(value))

\* hints.placeholder.split(" ")[0]
FirstWord(s) == SubSeq(s, 1, RunEnd(s, 1, " ") - 1)

Candidate(selector, strategy) == [selector |-> selector, strategy |-> strategy]

\* candidates that put the name attribute before the id
HeuristicCandidatesNameFirst(step, hints) ==
  (IF hints.name # None
   THEN <<Candidate(<<"[", "n", "a", "m", "e", "=", "\"">> \o escapeCssValue(hints.name[1]) \o <<"\"", "]">>, "name-attr")>>
   ELSE <<>>)
  \o (IF hints.id # None THEN <<Candidate(<<"#">> \o hints.id[1], "id")>> ELSE <<>>)
  \o (IF hints.placeholder # None
      THEN <<Candidate(<<"[", "p", "l", "a", "c", "e", "h", "o", "l", "d", "e", "r", "=", "\"">> \o escapeCssValue(hints.placeholder[1]) \o <<"\"", "]">>,
                       "placeholder-exact")>>
      ELSE <<>>)
  \o (IF hints.text # None /\ step.action = "click"
      THEN <<Candidate(<<"t", "e", "x", "t", "=", "\"">> \o hints.text[1] \o <<"\"">>, "text-content")>>
      ELSE <<>>)

\* lines 96-119: the candidates of tryHeuristicHeal, in order
HeuristicCandidates(step, hints) ==
  (IF hints.id # None THEN <<Candidate(<<"#">> \o hints.id[1], "id")>> ELSE <<>>)
  \o (IF hints.placeholder # None
      THEN <<Candidate(<<"[", "p", "l", "a", "c", "e", "h", "o", "l", "d", "e", "r", "=", "\"">> \o escapeCssValue(hints.placeholder[1]) \o <<"\"", "]">>,
                       "placeholder-exact")>>
           \o (IF Len(FirstWord(hints.placeholder[1])) >= 3
               THEN <<Candidate(<<"[", "p", "l", "a", "c", "e", "h", "o", "l", "d", "e", "r", "*", "=", "\"">>
                                  \o escapeCssValue(FirstWord(hints.placeholder[1]))
                                  \o <<"\"", "]">>,
                                "placeholder-partial")>>
               ELSE <<>>)
      ELSE <<>>)
  \o (IF hints.name # None
      THEN <<Candidate(<<"[", "n", "a", "m", "e", "=", "\"">> \o escapeCssValue(hints.name[1]) \o <<"\"", "]">>, "name-attr")>>
      ELSE <<>>)
  \o (IF hints.text # None /\ step.action = "click"
      THEN <<Candidate(<<"t", "e", "x", "t", "=", "\"">> \o hints.text[1] \o <<"\"">>, "text-content")>>
      ELSE <<>>)

\* lines 82-89: isLocatable; page is the set of selectors that locate an
\* element
isLocatable(page, selector) == selector \in page

\* the index of the first candidate that is locatable, 0 when none is
FirstLocatable(page, candidates) ==
  IF \E k \in 1..Len(candidates) : isLocatable(page, candidates[k].selector)
  THEN CHOOSE k \in 1..Len(candidates) :
         /\ isLocatable(page, candidates[k].selector)
         /\ \A j \in 1..(k - 1) : ~isLocatable(page, candidates[j].selector)
  ELSE 0

HealResult(healed, newSelectors, strategy, probes) ==
  [healed |-> healed, newSelectors |-> newSelectors, strategy |-> strategy,
   probes |-> probes]

\* the calls of isLocatable on the first n candidates
Probes(page, candidates, n) ==
  [k \in 1..n |-> Called("isLocatable", candidates[k].strategy, candidates[k].selector,
                         isLocatable(page, candidates[k].selector))]

\* lines 121-127, 208-214: the loop over the candidates
TryCandidates(page, candidates) ==
  With(FirstLocatable(page, candidates), LAMBDA k :
    IF k = 0 THEN HealResult(FALSE, <<>>, "", Probes(page, candidates, Len(candidates)))
    ELSE HealResult(TRUE, <<candidates[k].selector>>, candidates[k].strategy,
                    Probes(page, candidates, k)))

\* lines 91-128: tryHeuristicHeal
tryHeuristicHeal(page, step, hints) == TryCandidates(page, HeuristicCandidates(step, hints))

RECURSIVE DigitsEnd(_, _)
DigitsEnd(s, i) == IF i <= Len(s) /\ IsDigit(s[i]) THEN DigitsEnd(s, i + 1) ELSE i

\* line.replace(/^(?:\d+[.)]\s*|-\s+|\*\s+)/, "")
StripListMark(line) ==
  IF DigitsEnd(line, 1) > 1 /\ DigitsEnd(line, 1) <= Len(line)
       /\ line[DigitsEnd(line, 1)] \in {".", ")"}
  THEN SubSeq(line, SkipSpaces(line, DigitsEnd(line, 1) + 1), Len(line))
  ELSE IF Len(line) >= 2 /\ line[1] \in {"-", "*"} /\ line[2] = " "
  THEN SubSeq(line, SkipSpaces(line, 2), Len(line))
  ELSE line

\* the grave accent (U+0060), written ^ in the strings of this module
Tick == "^"

\* the pattern of line 146, a text between two grave accents, at index
\* i: the capture
BacktickAt(s, i) ==
  IF s[i] = Tick /\ RunEnd(s, i + 1, Tick) > i + 1 /\ RunEnd(s, i + 1, Tick) <= Len(s)
  THEN Some(SubSeq(s, i + 1, RunEnd(s, i + 1, Tick) - 1)) ELSE None

\* [a-zA-Z#.\[:\w]
IsSelectorStart(c) ==
  c \in Range(Letters) \cup Range(Capitals) \cup Range(Digits) \cup {"_", "#", ".", "[", ":"}

\* lines 143-151: the selectors of one line of the response
SelectorsOfLine(line) ==
  With(Trim(StripListMark(line)), LAMBDA trimmed :
    IF trimmed = <<>> THEN <<>>
    ELSE IF FirstCapture(trimmed, BacktickAt) # None
    THEN <<FirstCapture(trimmed, BacktickAt)[1]>>
    ELSE IF IsSelectorStart(trimmed[1])
              /\ " " \notin Range(trimmed) /\ Len(trimmed) < 200
    THEN <<trimmed>>
    ELSE <<>>)

RECURSIVE SelectorsOfLines(_)
SelectorsOfLines(lines) ==
  IF lines = <<>> THEN <<>>
  ELSE SelectorsOfLine(Head(lines)) \o SelectorsOfLines(Tail(lines))

\* lines 135-153: parseSelectorsFromLlmResponse
parseSelectorsFromLlmResponse(response) ==
  SelectorsOfLines(SplitLines(response, <<>>))

LlmCandidates(response) ==
  [k \in 1..Len(parseSelectorsFromLlmResponse(response)) |->
     Candidate(parseSelectorsFromLlmResponse(response)[k], "llm")]

\* lines 155-201: tryLlmHeal; env.contentOk tells whether page.content()
\* returns, env.response is what runLocalClaude gives
tryLlmHeal(page, step, env) ==
  IF ~env.contentOk THEN HealResult(FALSE, <<>>, "", <<>>)
  ELSE IF env.response = None \/ env.response[1] = <<>>
  THEN HealResult(FALSE, <<>>, "", <<Called("runLocalClaude", "", <<>>, FALSE)>>)
  ELSE With(TryCandidates(page, LlmCandidates(env.response[1])), LAMBDA r :
         [r EXCEPT !.probes = <<Called("runLocalClaude", "", <<>>, TRUE)>> \o r.probes])

\* the selectors of the steps that are healed
HintSelectors ==
  { <<"#", "q">>, <<"[", "p", "l", "a", "c", "e", "h", "o", "l", "d", "e", "r", "=", "\"", "a", "b", "c", " ", "d", "\"", "]">>, <<"[", "p", "l", "a", "c", "e", "h", "o", "l", "d", "e", "r", "=", "\"", "a", "b", "\"", "]">>, <<"i", "n", "p", "u", "t", "[", "n", "a", "m", "e", "=", "\"", "n", "\\", "\"", "]">>,
    <<"b", "u", "t", "t", "o", "n", ":", "h", "a", "s", "-", "t", "e", "x", "t", "(", "\"", "o", "k", "\"", ")">> }

MaxSelectors == 2
RediscoverSteps ==
  { MkStep(<<"s", "1">>, "pw", a, None, l, IF a = "fill" THEN Some(VAcme) ELSE None,
           None, <<>>, <<>>) :
      a \in {"click", "fill"}, l \in ShapeLists(HintSelectors, MaxSelectors) }

\* the selectors that can locate an element of the page
PageSelectors ==
  { <<"#", "q">>, <<"[", "p", "l", "a", "c", "e", "h", "o", "l", "d", "e", "r", "=", "\"", "a", "b", "c", " ", "d", "\"", "]">>, <<"[", "p", "l", "a", "c", "e", "h", "o", "l", "d", "e", "r", "*", "=", "\"", "a", "b", "c", "\"", "]">>, <<"[", "p", "l", "a", "c", "e", "h", "o", "l", "d", "e", "r", "=", "\"", "a", "b", "\"", "]">>,
    <<"[", "n", "a", "m", "e", "=", "\"", "n", "\\", "\\", "\"", "]">>, <<"t", "e", "x", "t", "=", "\"", "o", "k", "\"">>, <<"#", "h">>, <<".", "b">> }
Pages == { p \in SUBSET PageSelectors : Cardinality(p) <= 2 }

\* what the prompt collaborator answers
LlmResponses ==
  { None, Some(<<>>), Some(<<Tick, "#", "h", Tick, "\n", "-", " ", Tick, ".", "b", Tick>>), Some(<<"1", ".", " ", ".", "b", "\n", "\n", "n", "o", " ", "i", "d", "e", "a", "\n", "*", " ", Tick, "#", "h", Tick>>) }

InitRediscover ==
  /\ \E st \in RediscoverSteps : recipe = MkRecipe(1, "compiled", <<st>>, <<>>)
  /\ cliVars = EmptyMap
  /\ opts = MkOpts("healSelector", TRUE, FALSE, FALSE, <<>>)
  /\ pc = "heuristic"
  /\ PlanStart
  /\ browser = "open"
  /\ httpContext = "none"
  /\ surfaceLog = <<>>
  /\ livePageUrl = UrlA
  /\ index = 1
  /\ pageUrl = None
  /\ httpUrl = None
  /\ previousStepMode = "none"
  /\ execLog = <<>>
  /\ selectorPatches = EmptyMap
  /\ phase2Replacements = <<>>
  /\ healStats = [phase1Healed |-> 0, phase2ReRecorded |-> 0]
  /\ isRecording = FALSE
  /\ healRecordBuffer = <<>>
  /\ reNumberedSteps = <<>>
  /\ reIndex = 1
  /\ runResult = None
  /\ mergedSteps = None
  /\ saveCalls = <<>>
  /\ output = <<>>
  /\ cmdResult = None

RediscoverUnchanged ==
  UNCHANGED <<inputVars, varIdx, resolvedVars, warnings, unresolved, planErr, plan,
              surfaceVars, index, pageUrl, httpUrl, previousStepMode, healVars,
              runResult, mergedSteps, saveCalls, output>>

\* healSelector lines 209-214: the hints are collected and the heuristic
\* candidates tried on the page
TryHeuristic ==
  /\ pc = "heuristic"
  /\ \E page \in Pages :
       /\ execLog' = <<[page |-> page, contentOk |-> TRUE, response |-> None]>>
       /\ With(tryHeuristicHeal(page, recipe.steps[1],
                                collectHints(recipe.steps[1].selectorVariants)),
               LAMBDA r :
            /\ calls' = r.probes
            /\ IF r.healed
               THEN /\ cmdResult' = Some(r)
                    /\ pc' = "returned"
               ELSE /\ cmdResult' = cmdResult
                    /\ pc' = "llm")
  /\ RediscoverUnchanged

\* healSelector line 216: no heuristic candidate resolved, tryLlmHeal
TryLlm ==
  /\ pc = "llm"
  /\ \E contentOk \in BOOLEAN :
       \E response \in (IF contentOk THEN LlmResponses ELSE {None}) :
         /\ execLog' = <<[execLog[1] EXCEPT !.contentOk = contentOk,
                                            !.response = response]>>
         /\ With(tryLlmHeal(execLog[1].page, recipe.steps[1],
                            [contentOk |-> contentOk, response |-> response]),
                 LAMBDA r :
              /\ calls' = calls \o r.probes
              /\ cmdResult' = Some(r))
  /\ pc' = "returned"
  /\ RediscoverUnchanged

NextRediscover == TryHeuristic \/ TryLlm

SpecRediscover == InitRediscover /\ [][NextRediscover]_vars

(***************************************************************************)
(* The loop of runPlanSteps over lists of browser and HTTP steps in every  *)
(* alternation, with the cookies the two surfaces hold                     *)
(* (src/src/commands/run.ts lines 443-455, 566-643)                        *)
(***************************************************************************)

\* longest step list of a session
MaxSessionSteps == 3

SessionGoto == MkStep(<<>>, "pw", "goto", Some(UrlA), <<>>, None, None, <<>>, <<>>)
SessionFetch == MkStep(<<>>, "http", "fetch", Some(UrlAx), <<>>, None, None, <<>>, <<>>)

\* a browser step, an HTTP step, and an HTTP step guarded by url_is http://a/*
SessionStepShapes == {SessionGoto, SessionFetch, FetchStep}

SessionStepLists ==
  { WithIds(l) : l \in ShapeLists(SessionStepShapes, MaxSessionSteps) } \ {<<>>}

\* the URLs a step of a session can end on
SessionUrls == {UrlA, UrlB}

\* lines 553-568: the runner's locals after the launch; the browser exists
\* only when the list has a browser step
InitSession ==
  /\ \E sl \in SessionStepLists : recipe = MkRecipe(1, "compiled", sl, <<>>)
  /\ cliVars = EmptyMap
  /\ opts = MkOpts("runPlanSteps", FALSE, FALSE, FALSE, <<>>)
  /\ pc = "loop"
  /\ PlanStart
  /\ browser = IF \E i \in 1..Len(recipe.steps) : recipe.steps[i].mode = "pw"
               THEN "open" ELSE "none"
  /\ httpContext = "none"
  /\ surfaceLog = <<>>
  /\ livePageUrl = AboutBlank
  /\ index = 1
  /\ pageUrl = None
  /\ httpUrl = None
  /\ previousStepMode = "none"
  /\ execLog = <<>>
  /\ selectorPatches = EmptyMap
  /\ phase2Replacements = <<>>
  /\ healStats = [phase1Healed |-> 0, phase2ReRecorded |-> 0]
  /\ isRecording = FALSE
  /\ healRecordBuffer = <<>>
  /\ reNumberedSteps = <<>>
  /\ reIndex = 1
  /\ runResult = None
  /\ mergedSteps = None
  /\ saveCalls = <<>>
  /\ output = <<>>
  /\ cmdResult = None

\* what the surfaces can do during one step of a session
SessionEnvs(step, st) ==
  { env \in StepEnvs(step, st, FALSE) : env.download = "none" /\ env.newUrl \in SessionUrls }

\* one iteration as the session's log keeps it: the step, the runner's
\* URLs before it, what the surfaces did, the surface operations made
\* before the step ran, the step's error, the URL it recorded, and
\* whether the response or the page set a cookie on the step's surface
SessionEntry(step, st, env, r, cookie) ==
  [id |-> step.id, mode |-> step.mode, guards |-> step.guards,
   pageUrl |-> st.pageUrl, httpUrl |-> st.httpUrl, env |-> env,
   surface |-> r.surface, ran |-> r.acted # "none", error |-> r.error,
   recorded |-> IF step.mode = "pw" THEN r.st.pageUrl ELSE r.st.httpUrl,
   cookie |-> cookie]

SessionStepEffect(step, st, env, r) ==
  /\ IterationEffect(r.st, r.surface)
  /\ \E cookie \in Flags(r.error = None /\ r.acted # "none") :
       execLog' = Append(execLog, SessionEntry(step, st, env, r, cookie /\ r.error = None))
  /\ IF LoopContinues(r.error)
     THEN /\ index' = index + 1
          /\ UNCHANGED <<runResult, pc>>
     ELSE /\ runResult' = Some(RunErr(r.error[1]))
          /\ pc' = "returned"
          /\ index' = index

\* lines 570-641: one iteration of the loop of runPlanSteps
SessionStep ==
  /\ pc = "loop"
  /\ index <= Len(recipe.steps)
  /\ \E env \in SessionEnvs(recipe.steps[index], CurrentState) :
       SessionStepEffect(recipe.steps[index], CurrentState, env,
                         RunIteration(recipe.steps[index], CurrentState, env))
  /\ UNCHANGED <<inputVars, planVars, browser, healVars, mergedSteps, saveCalls, output,
                 cmdResult>>

\* line 643: every step succeeded
SessionDone ==
  /\ pc = "loop"
  /\ index > Len(recipe.steps)
  /\ runResult' = Some(RunOk)
  /\ pc' = "returned"
  /\ UNCHANGED <<inputVars, planVars, surfaceVars, loopVars, healVars, mergedSteps,
                 saveCalls, output, cmdResult>>

NextSession == SessionStep \/ SessionDone

SpecSession == InitSession /\ [][NextSession]_vars

\* the cookies of the two surfaces
Jars(browserJar, httpJar) == [browser |-> browserJar, http |-> httpJar]

\* what a surface operation does to the cookies: lines 618-621 seed the
\* new HTTP surface with the browser's storage state, lines 449-451 add the
\* HTTP surface's cookies to the browser, dispose() drops the HTTP surface
ApplyOp(jars, op) ==
  IF op = "http_new" THEN Jars(jars.browser, jars.browser)
  ELSE IF op = "cookie_sync" THEN Jars(jars.browser \cup jars.http, jars.http)
  ELSE IF op = "http_dispose" THEN Jars(jars.browser, {})
  ELSE jars

RECURSIVE ApplyOps(_, _, _)
ApplyOps(jars, ops, i) ==
  IF i > Len(ops) THEN jars ELSE ApplyOps(ApplyOp(jars, ops[i]), ops, i + 1)

\* the cookies when the k-th step of the log runs, and after it: the
\* cookie a step obtains is named by the step's position
RECURSIVE JarsAt(_, _)
JarsAfter(log, k) ==
  IF k = 0 THEN Jars({}, {})
  ELSE With(JarsAt(log, k), LAMBDA jars :
         IF ~log[k].cookie THEN jars
         ELSE IF log[k].mode = "pw" THEN Jars(jars.browser \cup {k}, jars.http)
         ELSE Jars(jars.browser, jars.http \cup {k}))
JarsAt(log, k) == ApplyOps(JarsAfter(log, k - 1), log[k].surface, 1)

\* the cookies the k-th step of the log sees on its surface
VisibleAt(log, k) ==
  IF log[k].mode = "pw" THEN JarsAt(log, k).browser ELSE JarsAt(log, k).http

(***************************************************************************)
(* A run of fetch steps on one HTTP surface, with the download directory:  *)
(* the request, the saving of the response and the validation of the       *)
(* effects are separate steps                                              *)
(* (src/src/commands/run.ts lines 338-401, 474-490, 631-657)               *)
(***************************************************************************)

\* longest step list of a run of fetch steps
MaxDownloadSteps == 2

\* fetch steps with and without the download flag, and with and without an
\* effect that holds only when the response comes from http://a/x
DownloadSteps ==
  { [MkFetchStep(<<>>, UrlAx, None, None, d) EXCEPT !.effects = e] :
      d \in {None, Some(TRUE)}, e \in {<<>>, <<Check("url_changed", UrlAx)>>} }

DownloadStepLists ==
  { WithIds(l) : l \in ShapeLists(DownloadSteps, MaxDownloadSteps) } \ {<<>>}

DownloadResponses ==
  { [url |-> u, contentDisposition |-> cd, contentType |-> None] :
      u \in {UrlAx, UrlPdf},
      cd \in {None, Some(<<"a", "t", "t", "a", "c", "h", "m", "e", "n", "t">>)} }

\* a file of the download directory: the name asked for, the count that
\* ensureUniquePathResult appended to it, the step that created it, and
\* whether the response body is in it
DownloadFile(name, count, by, body) ==
  [name |-> name, count |-> count, by |-> by, body |-> body]

\* lines 338-352: the first count whose candidate is not in the directory
RECURSIVE FirstFreeCount(_, _, _)
FirstFreeCount(dir, name, count) ==
  IF \E i \in DOMAIN dir : dir[i].name = name /\ dir[i].count = count
  THEN FirstFreeCount(dir, name, count + 1)
  ELSE count

\* an entry of the run's trace
DownloadOp(op, step) == [op |-> op, step |-> step]

InitDownload ==
  /\ \E sl \in DownloadStepLists : recipe = MkRecipe(1, "compiled", sl, <<>>)
  /\ cliVars = EmptyMap
  /\ opts = MkOpts("runPlanSteps", FALSE, FALSE, FALSE, <<>>)
  /\ pc = "fetch"
  /\ PlanStart
  /\ browser = "none"
  /\ httpContext = "open"
  /\ surfaceLog = <<>>
  /\ livePageUrl = AboutBlank
  /\ index = 1
  /\ pageUrl = None
  /\ httpUrl = None
  /\ previousStepMode = "http"
  /\ execLog = <<>>
  /\ selectorPatches = EmptyMap
  /\ phase2Replacements = <<>>
  /\ healStats = [phase1Healed |-> 0, phase2ReRecorded |-> 0]
  /\ isRecording = FALSE
  /\ healRecordBuffer = <<>>
  /\ reNumberedSteps = <<>>
  /\ reIndex = 1
  /\ runResult = None
  /\ mergedSteps = None
  /\ saveCalls = <<>>
  /\ output = <<>>
  /\ cmdResult = None

DownloadUnchanged ==
  UNCHANGED <<inputVars, varIdx, resolvedVars, warnings, unresolved, planErr, plan,
              browser, surfaceLog, livePageUrl, pageUrl, previousStepMode, healVars,
              mergedSteps, output, cmdResult>>

\* the step fails: runHttpStepResult returns the error, the loop returns it
\* (line 638) and the finally block is next
DownloadStepFails(cause) ==
  /\ runResult' = Some(RunErr(stepExecutionError(recipe.steps[index].id, cause)))
  /\ pc' = "finally"

\* lines 476-484: the request is issued; calls holds the response
DownloadFetch ==
  /\ pc = "fetch"
  /\ index <= Len(recipe.steps)
  /\ \/ /\ \E response \in DownloadResponses : calls' = <<response>>
        /\ execLog' = Append(execLog, DownloadOp("fetch", index))
        /\ pc' = "fetched"
        /\ runResult' = runResult
     \/ /\ calls' = <<>>
        /\ execLog' = Append(execLog, DownloadOp("fetch_threw", index))
        /\ DownloadStepFails("fetch_threw")
  /\ UNCHANGED <<httpContext, index, httpUrl, saveCalls>>
  /\ DownloadUnchanged

\* lines 359-401, 485-488: saveHttpDownloadIfNeeded.  A response that is
\* not a download is left alone; else ensureUniquePathResult creates an
\* empty file under a free name, or fails, and writeFile puts the body in
\* it, or fails; a failure is the step's error.
SaveResponse ==
  /\ pc = "fetched"
  /\ IF ~shouldSave(recipe.steps[index], calls[1])
     THEN /\ pc' = "effects"
          /\ UNCHANGED <<saveCalls, execLog, runResult>>
     ELSE \E outcome \in {"open_threw", "write_threw", "written"} :
            /\ saveCalls' =
                 IF outcome = "open_threw" THEN saveCalls
                 ELSE Append(saveCalls,
                             DownloadFile(downloadFilename(recipe.steps[index], calls[1]),
                                          FirstFreeCount(saveCalls,
                                                         downloadFilename(recipe.steps[index],
                                                                          calls[1]), 0),
                                          index, outcome = "written"))
            /\ execLog' = Append(execLog, DownloadOp(outcome, index))
            /\ IF outcome = "written"
               THEN pc' = "effects" /\ runResult' = runResult
               ELSE DownloadStepFails(outcome)
  /\ UNCHANGED <<httpContext, index, httpUrl, calls>>
  /\ DownloadUnchanged

\* lines 489-490, 638-640: the effects are validated at the response's
\* URL; the step records that URL and the loop goes on, or the step fails
ValidateFetchEffects ==
  /\ pc = "effects"
  /\ IF validateEffects(recipe.steps[index],
                        EffectCtx(httpUrl, Some(calls[1].url), FALSE,
                                  [effectText |-> FALSE, itemCount |-> 0]))
     THEN /\ execLog' = Append(execLog, DownloadOp("effects_hold", index))
          /\ httpUrl' = Some(calls[1].url)
          /\ index' = index + 1
          /\ pc' = "fetch"
          /\ runResult' = runResult
     ELSE /\ execLog' = Append(execLog, DownloadOp("effects_fail", index))
          /\ DownloadStepFails("effect_failed")
          /\ UNCHANGED <<httpUrl, index>>
  /\ UNCHANGED <<httpContext, calls, saveCalls>>
  /\ DownloadUnchanged

\* line 643: every step succeeded
DownloadsDone ==
  /\ pc = "fetch"
  /\ index > Len(recipe.steps)
  /\ runResult' = Some(RunOk)
  /\ pc' = "finally"
  /\ UNCHANGED <<httpContext, index, httpUrl, calls, execLog, saveCalls>>
  /\ DownloadUnchanged

\* a finally block that deletes the files of a failed run
DownloadFinallyRollsBack ==
  /\ pc = "finally"
  /\ httpContext' = "none"
  /\ saveCalls' = IF runResult[1].ok THEN saveCalls ELSE <<>>
  /\ pc' = "returned"
  /\ UNCHANGED <<index, httpUrl, calls, execLog, runResult>>
  /\ DownloadUnchanged

\* lines 650-657: the finally block releases the HTTP surface
DownloadFinally ==
  /\ pc = "finally"
  /\ httpContext' = "none"
  /\ saveCalls' = saveCalls
  /\ pc' = "returned"
  /\ UNCHANGED <<index, httpUrl, calls, execLog, runResult>>
  /\ DownloadUnchanged

NextDownload ==
  DownloadFetch \/ SaveResponse \/ ValidateFetchEffects \/ DownloadsDone \/ DownloadFinally

SpecDownload == InitDownload /\ [][NextDownload]_vars

\* ------------------------------------------------------------------------
\* Properties
\* ------------------------------------------------------------------------
PlanUnresolved == plan # None /\ plan[1].unresolvedVars # <<>>

\* C1: a plan with a non-empty unresolvedVars is never executed: the run
\* command and the plan and run services return a failure, and no browser
\* is launched, no HTTP surface is created and no step is started.
C1_UnresolvedPlanNeverExecuted ==
  PlanUnresolved =>
    /\ pc \in {"plan_returned", "done"}
    /\ browser = "none"
    /\ httpContext = "none"
    /\ surfaceLog = <<>>
    /\ execLog = <<>>
    /\ runResult = None
    /\ pc = "done" => (cmdResult # None /\ ~cmdResult[1].ok)

C1_Witness ==
  /\ PlanUnresolved
  /\ pc = "done"
  /\ opts.entry = "run_service"
  /\ cmdResult = Some(CmdErr("unresolved_vars"))

NotReRecorded(k) == execLog[k].origin # "rerecorded"

\* C2 as stated: once Phase 2 has run for the original step at index i, no
\* original plan step with an index greater than i is started.
C2_NoOriginalStepAfterPhase2 ==
  \A j, k \in 1..Len(execLog) :
    (j < k /\ ~NotReRecorded(j) /\ NotReRecorded(k)) => execLog[k].index <= execLog[j].index

\* C2 amended: once Phase 2 has run for the original step at index i, no
\* original plan step with an index of at most i is started again; after
\* the re-captured steps have run, the run resumes the original step list
\* at index i + 1, and a run that succeeds has started every original step.
C2_ResumesAfterPhase2 ==
  /\ \A j, k \in 1..Len(execLog) :
       (j < k /\ ~NotReRecorded(j) /\ NotReRecorded(k)) => execLog[k].index > execLog[j].index
  /\ (pc = "loop" /\ execLog # <<>> /\ ~NotReRecorded(Len(execLog)))
       => (index = execLog[Len(execLog)].index + 1 /\ runResult = None)
  /\ (opts.heal /\ runResult # None /\ runResult[1].ok)
       => \A i \in 1..Len(plan[1].steps) :
            \E k \in 1..Len(execLog) : NotReRecorded(k) /\ execLog[k].index = i

C2_Witness ==
  /\ pc = "done"
  /\ runResult # None /\ runResult[1].ok
  /\ Len(execLog) >= 3
  /\ execLog[1].index = 1 /\ ~execLog[1].ok
  /\ ~NotReRecorded(2)
  /\ execLog[Len(execLog)].origin = "plan" /\ execLog[Len(execLog)].index = 2

C4_SuccessNeedsResolvingCandidate ==
  \A k \in 1..Len(execLog) :
    execLog[k].action \in {"click", "fill"} =>
      /\ Len(execLog[k].attempts) <= Len(execLog[k].selectorVariants)
      /\ \A a \in 1..Len(execLog[k].attempts) :
           /\ execLog[k].attempts[a].selector = execLog[k].selectorVariants[a]
           /\ a < Len(execLog[k].attempts) => ~execLog[k].attempts[a].resolved
      /\ execLog[k].ok =>
           /\ execLog[k].attempts # <<>>
           /\ execLog[k].attempts[Len(execLog[k].attempts)].resolved

\* the position of the step with the given id, 0 when there is none
PositionOf(steps, id) ==
  IF \E k \in 1..Len(steps) : steps[k].id = id
  THEN CHOOSE k \in 1..Len(steps) : steps[k].id = id
  ELSE 0

Spliced(steps, k, newSteps) ==
  IF k = 0 THEN steps
  ELSE [i \in 1..(Len(steps) - 1 + Len(newSteps)) |->
          IF i < k THEN steps[i]
          ELSE IF i < k + Len(newSteps) THEN newSteps[i - k + 1]
          ELSE steps[i - Len(newSteps) + 1]]

\* C5: applyPhase2Replacements on a list with unique ids and one
\* replacement keyed by the id of the step at position k returns the steps
\* before k, the new steps in their order, then the steps after k; a
\* replacement whose id is not in the list changes nothing; the input list
\* is left as it was.
C5_SplicesExactlyOneStep ==
  [][(pc = "patch" /\ Len(phase2Replacements) = 1) =>
       /\ recipe' = recipe
       /\ mergedSteps' =
            Some(Spliced(recipe.steps,
                         PositionOf(recipe.steps, phase2Replacements[1].replacedFromStepId),
                         phase2Replacements[1].newSteps))]_vars

C5_Witness ==
  /\ pc = "patched"
  /\ Len(phase2Replacements) = 1
  /\ Len(recipe.steps) = 3
  /\ phase2Replacements[1].replacedFromStepId = recipe.steps[2].id
  /\ Len(phase2Replacements[1].newSteps) = 2
  /\ Len(mergedSteps[1]) = 4

Replaced(id) ==
  \E r \in 1..Len(phase2Replacements) : phase2Replacements[r].replacedFromStepId = id

\* C6: in the recipe saved after healing, a step with a recorded selector
\* patch P has the candidates P followed by its original candidates in
\* their order, and a step without patch or replacement is saved unchanged.
C6_PatchPrependsKeepsOriginals ==
  \A c \in 1..Len(saveCalls) :
    \A i \in 1..Len(recipe.steps) :
      IF recipe.steps[i].id \in DOMAIN selectorPatches
      THEN \E j \in 1..Len(saveCalls[c].steps) :
             saveCalls[c].steps[j] =
               [recipe.steps[i] EXCEPT !.selectorVariants =
                  selectorPatches[recipe.steps[i].id] \o recipe.steps[i].selectorVariants]
      ELSE Replaced(recipe.steps[i].id)
           \/ \E j \in 1..Len(saveCalls[c].steps) : saveCalls[c].steps[j] = recipe.steps[i]

C6_Witness ==
  /\ Len(saveCalls) = 1
  /\ Len(recipe.steps) = 2
  /\ DOMAIN selectorPatches = {recipe.steps[2].id}
  /\ phase2Replacements = <<>>
  /\ saveCalls[1].steps[1] = recipe.steps[1]
  /\ saveCalls[1].steps[2].selectorVariants = <<SelH, SelA, SelB>>

HealingOccurred == DOMAIN selectorPatches # {} \/ phase2Replacements # <<>>

\* C7: after a healing-enabled run that succeeded, the recipe is saved
\* exactly once, with the version incremented and source healed, if and
\* only if a Phase-1 heal or a Phase-2 re-record occurred; without healing
\* nothing is saved and the reported version is the recipe's version.
C7_SavedOnceIffHealed ==
  /\ Len(saveCalls) <= 1
  /\ saveCalls # <<>> => (opts.heal /\ runResult # None /\ runResult[1].ok /\ HealingOccurred)
  /\ (pc = "done" /\ opts.heal /\ runResult # None /\ runResult[1].ok) =>
       IF HealingOccurred
       THEN /\ Len(saveCalls) = 1
            /\ saveCalls[1].version = recipe.version + 1
            /\ saveCalls[1].source = "healed"
       ELSE /\ saveCalls = <<>>
            /\ output = <<Json(recipe.version, TRUE, "execute", "", None)>>

C7_Witness ==
  /\ pc = "done"
  /\ runResult # None /\ runResult[1].ok
  /\ phase2Replacements # <<>>
  /\ DOMAIN selectorPatches = {}
  /\ Len(saveCalls) = 1
  /\ saveCalls[1].version = 2

\* C8: the steps of the executing plan and of the loaded recipe are never
\* changed: not by the runner, not by Phase 1 or Phase 2, not by the
\* patcher; the healing results are kept apart and merged into a copy.
C8_PlanAndRecipeNeverMutated ==
  [][recipe' = recipe /\ (plan # None => plan' = plan)]_vars

C8_Witness ==
  /\ pc = "done"
  /\ DOMAIN selectorPatches # {}
  /\ phase2Replacements # <<>>
  /\ saveCalls # <<>>
  /\ mergedSteps # None
  /\ mergedSteps[1] # recipe.steps

\* YYYY-MM-DD
MatchesYMD(v) ==
  /\ Len(v) = 10
  /\ v[5] = "-"
  /\ v[8] = "-"
  /\ \A i \in (1..10) \ {5, 8} : IsDigit(v[i])

\* the variables whose iteration of the resolution loop has completed
Processed ==
  IF pc = "resolve" \/ planErr # None THEN 1..(varIdx - 1)
  ELSE 1..Len(recipe.variables)

DateErrorFor(name) ==
  Some(PlanError("variable_validation_failed", "date", name, <<>>))

\* C9: no plan is returned in which a date-typed variable has a value
\* that is not YYYY-MM-DD: whatever the source of the value, the builder
\* returns variable_validation_failed naming the variable, and the value
\* is not recorded.
C9_DateValuesValidated ==
  /\ \A i \in 1..Len(recipe.variables) :
       (opts.entry = "build" /\ recipe.variables[i].type = "date"
          /\ recipe.variables[i].name \in DOMAIN resolvedVars
          /\ ~MatchesYMD(resolvedVars[recipe.variables[i].name]))
         => /\ plan = None
            /\ i \notin Processed
            /\ (i = varIdx /\ pc # "resolve") =>
                 /\ planErr = DateErrorFor(recipe.variables[i].name)
                 /\ recipe.variables[i].name \in DOMAIN cliVars
  /\ (opts.entry = "build" /\ planErr # None /\ planErr[1].phase = "date") =>
       /\ plan = None
       /\ pc = "plan_returned"
       /\ planErr = DateErrorFor(recipe.variables[varIdx].name)
       /\ recipe.variables[varIdx].type = "date"
       /\ recipe.variables[varIdx].name \in DOMAIN resolvedVars
            => recipe.variables[varIdx].name \in DOMAIN cliVars

C9_Witness ==
  /\ pc = "plan_returned"
  /\ varIdx = 2
  /\ planErr = DateErrorFor(recipe.variables[2].name)
  /\ recipe.variables[2].name \notin DOMAIN resolvedVars
  /\ recipe.variables[2].resolver.type = "prompted"
  /\ recipe.variables[2].defaultValue = Some(DateOk)

\* a list of names in strictly ascending order
StrictlySorted(names) ==
  \A i, j \in 1..Len(names) : i < j => (names[i] # names[j] /\ StrLeq(names[i], names[j]))

\* C10: plan building goes on after a missing required variable: every
\* required variable without a value is in unresolvedVars and in the
\* warnings, the variables declared after it are still resolved, and
\* unresolvedVars is sorted and without duplicates.
C10_ContinuesAfterMissingVariable ==
  (opts.entry = "build" /\ plan # None) =>
    /\ StrictlySorted(plan[1].unresolvedVars)
    /\ \A i \in 1..Len(recipe.variables) :
         /\ (recipe.variables[i].required
               /\ recipe.variables[i].name \notin DOMAIN plan[1].resolvedVars)
              => /\ recipe.variables[i].name \in Range(plan[1].unresolvedVars)
                 /\ WarnUnresolved(recipe.variables[i].name) \in Range(plan[1].warnings)
         /\ recipe.variables[i].defaultValue # None
              => recipe.variables[i].name \in DOMAIN plan[1].resolvedVars

C10_Witness ==
  /\ plan # None
  /\ Len(recipe.variables) = 2
  /\ recipe.variables[1].name \in Range(plan[1].unresolvedVars)
  /\ recipe.variables[2].name \in DOMAIN plan[1].resolvedVars
  /\ recipe.variables[2].name \notin DOMAIN cliVars
  /\ Len(plan[1].unresolvedVars) = 3
  /\ unresolved # plan[1].unresolvedVars

\* the names of the required variables a plan holds no value for
MissingRequired ==
  { recipe.variables[i].name : i \in { j \in 1..Len(recipe.variables) :
      recipe.variables[j].required
        /\ recipe.variables[j].name \notin DOMAIN plan[1].resolvedVars } }

\* the tokens of the recipe's steps that are neither resolved nor builtin
OpenTokens ==
  UNION { { t \in Range(collectStepTemplateTokens(recipe.steps[i])) :
              t \notin DOMAIN plan[1].resolvedVars /\ ~isBuiltinTemplateToken(t) } :
          i \in 1..Len(recipe.steps) }

\* C11: the steps of a returned plan are substituted all or not at all:
\* when the unresolved set (missing required variables and step tokens
\* neither resolved nor builtin) is non-empty the plan's steps are the
\* recipe's steps, otherwise every step has all its templates substituted.
C11_StepsAllOrNothing ==
  (opts.entry = "build" /\ plan # None) =>
    /\ Range(plan[1].unresolvedVars) = MissingRequired \cup OpenTokens
    /\ IF MissingRequired \cup OpenTokens # {}
       THEN plan[1].steps = recipe.steps
       ELSE /\ Len(plan[1].steps) = Len(recipe.steps)
            /\ \A i \in 1..Len(recipe.steps) :
                 /\ resolveRecipeStepTemplatesResult(recipe.steps[i],
                                                     plan[1].resolvedVars).ok
                 /\ plan[1].steps[i] =
                      resolveRecipeStepTemplatesResult(recipe.steps[i],
                                                       plan[1].resolvedVars).step
                 /\ collectStepTemplateTokens(plan[1].steps[i]) = <<>>

C11_Witness ==
  /\ opts.entry = "build"
  /\ plan # None
  /\ plan[1].unresolvedVars = <<>>
  /\ plan[1].steps # recipe.steps
  /\ plan[1].steps[1].url = Some(UrlBase \o VAcme \o DateOk)

\* the resolver collaborators called for the variable of the given name
ResolverCalls(name) ==
  { k \in 1..Len(calls) :
      calls[k].name = name /\ calls[k].fn \in {"secretLoader", "promptRunner"} }

\* C12: a caller-supplied value for a declared variable wins over the
\* variable's resolver: the resolved value is the caller-supplied value
\* and the resolver's collaborator is never called for the variable.
C12_CallerValueWins ==
  opts.entry = "build" =>
    \A i \in 1..Len(recipe.variables) :
      recipe.variables[i].name \in DOMAIN cliVars =>
        /\ recipe.variables[i].name \in DOMAIN resolvedVars
        /\ resolvedVars[recipe.variables[i].name] = cliVars[recipe.variables[i].name]
        /\ ResolverCalls(recipe.variables[i].name) = {}
        /\ plan # None =>
             plan[1].resolvedVars[recipe.variables[i].name]
               = cliVars[recipe.variables[i].name]

C12_Witness ==
  /\ opts.entry = "build"
  /\ plan # None
  /\ Len(recipe.variables) = 2
  /\ recipe.variables[1].resolver.type = "secret"
  /\ recipe.variables[2].resolver.type = "prompted"
  /\ recipe.variables[1].name \in DOMAIN cliVars
  /\ recipe.variables[2].name \in DOMAIN cliVars
  /\ plan[1].resolvedVars = cliVars
  /\ calls = <<Called("secretSaver", recipe.variables[1].name,
                      cliVars[recipe.variables[1].name], "ok")>>

\* what the caller-supplied map and the variable's own declaration can give
\* a cli-resolver variable
CallerSupplied(variable) ==
  (IF variable.name \in DOMAIN cliVars THEN {cliVars[variable.name]} ELSE {})
  \cup (IF variable.resolver.key # None /\ variable.resolver.key[1] \in DOMAIN cliVars
        THEN {cliVars[variable.resolver.key[1]]} ELSE {})
  \cup (IF variable.defaultValue # None THEN {variable.defaultValue[1]} ELSE {})

\* C13: a cli-resolver variable takes its value only from the
\* caller-supplied map (under its own name or its alias key), never from a
\* value another variable's resolver or default produced earlier in the
\* same build, and resolving it calls no collaborator.
C13_CliValueFromCallerOnly ==
  opts.entry = "build" =>
    \A i \in 1..Len(recipe.variables) :
      recipe.variables[i].resolver.type = "cli" =>
        /\ ResolverCalls(recipe.variables[i].name) = {}
        /\ recipe.variables[i].name \in DOMAIN resolvedVars =>
             resolvedVars[recipe.variables[i].name] \in CallerSupplied(recipe.variables[i])

\* the declared variable of the given name
VariableNamed(name) ==
  recipe.variables[CHOOSE i \in 1..Len(recipe.variables) : recipe.variables[i].name = name]

\* the secret loader found nothing for the variable: the default value is
\* taken (and validated), or the variable is left out, unresolved when it
\* is required
AbsentHandled(variable) ==
  /\ (planErr # None /\ planErr[1].variableName = variable.name)
       => planErr[1].phase # "secret_loader"
  /\ IF variable.defaultValue # None
     THEN \/ /\ variable.name \in DOMAIN resolvedVars
             /\ resolvedVars[variable.name] = variable.defaultValue[1]
             /\ plan # None => plan[1].resolvedVars[variable.name] = variable.defaultValue[1]
          \/ /\ variable.name \notin DOMAIN resolvedVars
             /\ planErr # None
             /\ planErr[1].kind = "variable_validation_failed"
             /\ planErr[1].variableName = variable.name
             /\ plan = None
     ELSE /\ variable.name \notin DOMAIN resolvedVars
          /\ planErr # None => planErr[1].variableName # variable.name
          /\ variable.required =>
               /\ variable.name \in Range(unresolved)
               /\ WarnUnresolved(variable.name) \in Range(warnings)
               /\ plan # None => variable.name \in Range(plan[1].unresolvedVars)

\* the k-th collaborator call reported a store error: the build has
\* returned that error and no plan, and has called nothing since
StoreErrorFatal(k, phase) ==
  /\ planErr = Some(PlanError("secret_store_error", phase, calls[k].name, <<>>))
  /\ plan = None
  /\ pc = "plan_returned"
  /\ k = Len(calls)

\* C14: for a secret-resolver variable an absent vault value is no error
\* (the variable takes its defaultValue, or is unresolved if required and
\* without default), whereas a store error reported by the secret loader
\* or by the secret saver ends the build with secret_store_error and
\* without a plan.
C14_SecretAbsentVsStoreError ==
  opts.entry = "build" =>
    \A k \in 1..Len(calls) :
      /\ (calls[k].fn = "secretLoader" /\ calls[k].outcome = "absent")
           => AbsentHandled(VariableNamed(calls[k].name))
      /\ (calls[k].fn = "secretLoader" /\ calls[k].outcome = "store_error")
           => StoreErrorFatal(k, "secret_loader")
      /\ (calls[k].fn = "secretSaver" /\ calls[k].outcome = "store_error")
           => StoreErrorFatal(k, "secret_saver")

C14_Witness ==
  /\ opts.entry = "build"
  /\ Len(calls) = 2
  /\ calls[1] = Called("secretLoader", NK, <<>>, "absent")
  /\ calls[2] = Called("secretSaver", NK, VNum, "store_error")
  /\ resolvedVars[NK] = VNum
  /\ planErr # None
  /\ plan = None

\* the calls of the secret saver for the variable of the given name
SaverCalls(name) ==
  { k \in 1..Len(calls) : calls[k].fn = "secretSaver" /\ calls[k].name = name }

\* a secret-resolver variable that holds a resolved value
SaverDue(variable) ==
  variable.resolver.type = "secret" /\ variable.name \in DOMAIN resolvedVars

\* the build returned a fatal error of the resolution pass
ResolutionFatal ==
  /\ pc = "plan_returned"
  /\ planErr # None
  /\ planErr[1].phase \notin {"secret_saver", "step_resolution"}

\* every saver call comes after the whole resolution pass, is for a
\* declared secret-resolver variable and carries its resolved value; there
\* is none when the resolution pass ended in a fatal error
SaverCallsWellPlaced ==
  /\ \A k \in 1..Len(calls) :
       calls[k].fn = "secretSaver" =>
         /\ pc # "resolve"
         /\ \A j \in 1..Len(calls) : calls[j].fn # "secretSaver" => j < k
         /\ \E i \in 1..Len(recipe.variables) :
              /\ recipe.variables[i].name = calls[k].name
              /\ SaverDue(recipe.variables[i])
              /\ calls[k].arg = resolvedVars[calls[k].name]
  /\ ResolutionFatal => \A k \in 1..Len(calls) : calls[k].fn # "secretSaver"

\* C15 as stated: once the build has ended without a fatal resolution
\* error, the secret saver has been called exactly once for each
\* secret-resolver variable that holds a resolved value.
C15_SavedExactlyOnceEach ==
  opts.entry = "build" =>
    /\ SaverCallsWellPlaced
    /\ (pc = "plan_returned" /\ ~ResolutionFatal) =>
         \A i \in 1..Len(recipe.variables) :
           SaverDue(recipe.variables[i]) =>
             Cardinality(SaverCalls(recipe.variables[i].name)) = 1

\* the index of the last declared variable the saving loop has dealt with
SavedUpTo ==
  IF pc = "resolve" \/ ResolutionFatal THEN 0
  ELSE IF pc = "save_secrets" THEN varIdx - 1
  ELSE IF pc = "plan_returned" /\ planErr # None /\ planErr[1].phase = "secret_saver"
  THEN varIdx
  ELSE Len(recipe.variables)

\* C15: the secret saver is called only after the whole resolution pass,
\* only for secret-resolver variables holding a resolved value and with
\* that value, never after a fatal resolution error, and in declaration
\* order exactly once per such variable up to the first variable for which
\* the saver fails: the build ends there, and the variables declared after
\* it are not offered to the saver.
C15_SavedOnceUntilSaverFails ==
  opts.entry = "build" =>
    /\ SaverCallsWellPlaced
    /\ \A i \in 1..Len(recipe.variables) :
         Cardinality(SaverCalls(recipe.variables[i].name))
           = IF SaverDue(recipe.variables[i]) /\ i <= SavedUpTo THEN 1 ELSE 0
    /\ (pc = "plan_returned" /\ planErr # None /\ planErr[1].phase = "secret_saver")
         => /\ calls[Len(calls)].name = recipe.variables[varIdx].name
            /\ calls[Len(calls)].outcome \in {"store_error", "throw"}
            /\ plan = None

C15_Witness ==
  /\ opts.entry = "build"
  /\ pc = "plan_returned"
  /\ Len(recipe.variables) = 2
  /\ SaverDue(recipe.variables[1])
  /\ SaverDue(recipe.variables[2])
  /\ recipe.variables[2].name \notin DOMAIN cliVars
  /\ planErr # None
  /\ planErr[1].phase = "secret_saver"
  /\ Len(calls) = 3
  /\ calls[3] = Called("secretSaver", recipe.variables[1].name,
                       resolvedVars[recipe.variables[1].name], "store_error")
  /\ SaverCalls(recipe.variables[2].name) = {}

\* the step is a goto step whose url holds the one token x
SoleToken(x) ==
  recipe.steps[1].action = "goto" /\ recipe.steps[1].url = Some(UrlBase \o Tok(x))

\* the call returned the step with the token replaced by v
ResolvedTo(v) == plan # None /\ plan[1].steps[1].url = Some(UrlBase \o v)

\* the call returned the step with the token replaced by a YYYY-MM-DD date
ResolvedToDate ==
  /\ plan # None
  /\ StartsWith(plan[1].steps[1].url[1], UrlBase)
  /\ MatchesYMD(SubSeq(plan[1].steps[1].url[1], Len(UrlBase) + 1,
                       Len(plan[1].steps[1].url[1])))

\* the call returned unknown_template_variable for x, and no step
FailedUnknown(x) ==
  plan = None /\ planErr = Some(TemplateVarError("unknown_template_variable", x))

\* C16: a token resolves by a fixed priority: to its value in the supplied
\* vars, even under the name of a builtin; otherwise now to the ISO
\* instant of the context time; otherwise today and today+Nd / today-Nd to
\* a YYYY-MM-DD date; any other token fails the whole resolution with
\* unknown_template_variable, and no partly substituted string is returned.
C16_TokenPriority ==
  (opts.entry = "template" /\ pc \in {"resolved", "template_failed"}) =>
    /\ \A x \in TemplateTokens :
         SoleToken(x) =>
           IF x \in DOMAIN cliVars THEN ResolvedTo(cliVars[x])
           ELSE IF x = NowWord THEN ResolvedTo(NowIso)
           ELSE IF x \in TodayTokens THEN ResolvedToDate
           ELSE FailedUnknown(x)
    /\ (/\ recipe.steps[1].url = Some(UrlBase \o Tok(NT) \o <<"/">> \o Tok(NZ))
        /\ NT \in DOMAIN cliVars
        /\ NZ \notin DOMAIN cliVars) => FailedUnknown(NZ)

\* no string of the step holds a {{...}} occurrence
TemplateFree(step) ==
  \A i \in 1..Len(StepStrings(step)) : TemplateMatches(StepStrings(step)[i], 1) = <<>>

\* C17 as stated: whenever resolution succeeds the resolved step holds no
\* {{...}} occurrence, and resolving it again with the same context
\* returns it unchanged.
C17_ResolvedStepTemplateFree ==
  (opts.entry = "template" /\ plan # None) =>
    /\ TemplateFree(plan[1].steps[1])
    /\ pc = "resolved_again" => mergedSteps = Some(<<plan[1].steps[1]>>)

\* no string of the step holds a brace
BraceFree(step) ==
  \A i \in 1..Len(StepStrings(step)) :
    \A j \in 1..Len(StepStrings(step)[i]) : ~IsBrace(StepStrings(step)[i][j])

\* the string holds no brace outside its {{...}} occurrences
NoStrayBrace(str) ==
  \A j \in 1..Len(str) :
    IsBrace(str[j]) =>
      \E k \in 1..Len(TemplateMatches(str, 1)) :
        TemplateMatches(str, 1)[k].from <= j /\ j <= TemplateMatches(str, 1)[k].to

\* no supplied value holds a brace, and no string of the recipe's step
\* holds one outside its tokens
PlainInputs ==
  /\ \A k \in DOMAIN cliVars : \A j \in 1..Len(cliVars[k]) : ~IsBrace(cliVars[k][j])
  /\ \A i \in 1..Len(StepStrings(recipe.steps[1])) :
       NoStrayBrace(StepStrings(recipe.steps[1])[i])

\* C17: resolution is idempotent on a resolved step that holds no {{...}}
\* occurrence: resolving it again with the same context succeeds and
\* returns it unchanged.  A successful resolution leaves no {{...}}
\* occurrence (no brace at all) when no supplied value holds a brace and
\* the step's strings hold no brace outside their tokens; a value that
\* reads as a template, or a token within further braces, leaves one.
C17_IdempotentOnTemplateFree ==
  (opts.entry = "template" /\ plan # None) =>
    /\ PlainInputs => (BraceFree(plan[1].steps[1]) /\ TemplateFree(plan[1].steps[1]))
    /\ (pc = "resolved_again" /\ TemplateFree(plan[1].steps[1]))
         => (mergedSteps = Some(<<plan[1].steps[1]>>) /\ planErr = None)

C17_Witness ==
  /\ opts.entry = "template"
  /\ pc = "resolved_again"
  /\ recipe.steps[1].action = "fill"
  /\ PlainInputs
  /\ \A i \in 1..Len(StepStrings(recipe.steps[1])) :
       TemplateMatches(StepStrings(recipe.steps[1])[i], 1) # <<>>
  /\ plan # None
  /\ TemplateFree(plan[1].steps[1])
  /\ plan[1].steps[1].value = Some(formatDate(NowDate))
  /\ mergedSteps = Some(<<plan[1].steps[1]>>)

\* the URL matches the pattern: by prefix when the pattern ends in *, by
\* equality otherwise
PatternMatches(pattern, url) ==
  IF Len(pattern) > 0 /\ pattern[Len(pattern)] = "*"
  THEN /\ Len(url) >= Len(pattern) - 1
       /\ \A j \in 1..(Len(pattern) - 1) : url[j] = pattern[j]
  ELSE url = pattern

\* the validation ran with a known current URL
KnownUrl ==
  /\ opts.entry \in {"validateGuards", "validateEffects"}
  /\ opts.currentUrl # None
  /\ opts.currentUrl[1] # <<>>

\* every url_is guard evaluated passed iff the URL matches its pattern,
\* every url_not guard iff it does not
UrlGuardsByPattern ==
  \A k \in 1..Len(execLog) :
    /\ execLog[k].check.type = "url_is"
         => (execLog[k].passed <=> PatternMatches(execLog[k].check.value, opts.currentUrl[1]))
    /\ execLog[k].check.type = "url_not"
         => (execLog[k].passed <=> ~PatternMatches(execLog[k].check.value, opts.currentUrl[1]))

\* C18 as stated: url_is, url_not and url_changed with a value all match
\* by prefix when the pattern ends in * and by equality otherwise.
C18_UrlPatternsEverywhere ==
  KnownUrl =>
    /\ UrlGuardsByPattern
    /\ \A k \in 1..Len(execLog) :
         (execLog[k].check.type = "url_changed" /\ execLog[k].check.value # <<>>)
           => (execLog[k].passed
                 <=> PatternMatches(execLog[k].check.value, opts.currentUrl[1]))

\* C18: a url_is or url_not guard matches a URL by prefix when its pattern
\* ends in * (the pattern without the * is a prefix of the URL) and by
\* equality otherwise; a url_changed effect with a value compares by
\* equality only, also when the value ends in *.
C18_UrlPatternsInGuards ==
  KnownUrl =>
    /\ UrlGuardsByPattern
    /\ \A k \in 1..Len(execLog) :
         (execLog[k].check.type = "url_changed" /\ execLog[k].check.value # <<>>)
           => (execLog[k].passed <=> opts.currentUrl[1] = execLog[k].check.value)

C18_Witness ==
  /\ opts.entry = "validateGuards"
  /\ opts.currentUrl = Some(UrlAx)
  /\ execLog = <<Evaluated(Check("url_is", Wildcard(UrlA)), TRUE),
                 Evaluated(Check("url_not", Wildcard(UrlA)), FALSE)>>

\* the checks of the list were evaluated in list order, one after the
\* other, and none after a check that failed
EvaluatedInOrder(checks) ==
  /\ Len(execLog) <= Len(checks)
  /\ \A k \in 1..Len(execLog) :
       /\ execLog[k].check = checks[k]
       /\ k < Len(execLog) => execLog[k].passed

\* the Result is ok iff every check of the list was evaluated and passed;
\* otherwise it is the error of the given kind carrying the step id and
\* the type and value of the check that failed, the last one evaluated
ResultOfFirstFailure(kind, checks) ==
  pc = "validated" =>
    /\ runResult # None
    /\ runResult[1].ok <=> (/\ Len(execLog) = Len(checks)
                            /\ \A k \in 1..Len(execLog) : execLog[k].passed)
    /\ ~runResult[1].ok =>
         /\ Len(execLog) >= 1
         /\ ~execLog[Len(execLog)].passed
         /\ runResult[1].error =
              Some([kind |-> kind, stepId |-> recipe.steps[1].id,
                    checkType |-> checks[Len(execLog)].type,
                    value |-> checks[Len(execLog)].value])

\* C19: validateGuards evaluates the guards in list order, returns
\* guard_failed with the step id, type and value of the first guard that
\* fails without evaluating a later guard, and returns ok iff every guard
\* passes; url_is and url_not pass when no current URL is known (else by
\* their pattern), text_visible passes when no page is attached.
C19_GuardsInOrderFirstFailure ==
  opts.entry = "validateGuards" =>
    /\ EvaluatedInOrder(recipe.steps[1].guards)
    /\ ResultOfFirstFailure("guard_failed", recipe.steps[1].guards)
    /\ KnownUrl => UrlGuardsByPattern
    /\ \A k \in 1..Len(execLog) :
         /\ (execLog[k].check.type \in {"url_is", "url_not"} /\ ~KnownUrl)
              => execLog[k].passed
         /\ (execLog[k].check.type = "text_visible" /\ ~opts.page) => execLog[k].passed

C19_Witness ==
  /\ opts.entry = "validateGuards"
  /\ pc = "validated"
  /\ opts.currentUrl = None
  /\ opts.page
  /\ recipe.steps[1].guards = <<Check("url_is", UrlA), Check("text_visible", VAcme)>>
  /\ execLog = <<Evaluated(Check("url_is", UrlA), TRUE),
                 Evaluated(Check("text_visible", VAcme), FALSE)>>
  /\ ~runResult[1].ok

\* the value reads selector|count: a non-empty selector before the first
\* bar and, behind it up to the next bar or the end, a non-empty numeral
WellFormedMinItems(value) ==
  \E b \in 2..Len(value) :
    /\ value[b] = "|"
    /\ \A j \in 1..(b - 1) : value[j] # "|"
    /\ \E e \in (b + 1)..Len(value) :
         /\ e = Len(value) \/ value[e + 1] = "|"
         /\ \A j \in (b + 1)..e : IsDigit(value[j])

\* a malformed min_items effect that was evaluated passed
MalformedMinItemsPass ==
  \A k \in 1..Len(execLog) :
    (execLog[k].check.type = "min_items" /\ ~WellFormedMinItems(execLog[k].check.value))
      => execLog[k].passed

\* every url_changed effect evaluated passed iff the current URL equals
\* its value, or differs from the URL before when it has no value
UrlChangedByComparison ==
  \A k \in 1..Len(execLog) :
    execLog[k].check.type = "url_changed" =>
      (execLog[k].passed <=>
         IF execLog[k].check.value # <<>>
         THEN opts.currentUrl = Some(execLog[k].check.value)
         ELSE opts.currentUrl # opts.beforeUrl)

\* C20 as stated: url_changed with a value passes iff the current URL
\* equals the value, without a value iff the current URL differs from the
\* URL before the step; a malformed min_items value is satisfied; the
\* first failing effect is reported as effect_failed.
C20_EffectsAsStated ==
  opts.entry = "validateEffects" =>
    /\ UrlChangedByComparison
    /\ MalformedMinItemsPass
    /\ EvaluatedInOrder(recipe.steps[1].effects)
    /\ ResultOfFirstFailure("effect_failed", recipe.steps[1].effects)

\* C20: when a current URL is known, url_changed with a value passes iff
\* the current URL equals the value and url_changed without a value iff
\* the current URL differs from the URL before the step; when no current
\* URL is known (absent or empty) a url_changed effect passes; a malformed
\* min_items value is satisfied; the first failing effect in list order
\* is reported as effect_failed with the step id and its type and value.
C20_EffectsWithKnownUrl ==
  opts.entry = "validateEffects" =>
    /\ KnownUrl => UrlChangedByComparison
    /\ ~KnownUrl =>
         \A k \in 1..Len(execLog) :
           execLog[k].check.type = "url_changed" => execLog[k].passed
    /\ MalformedMinItemsPass
    /\ EvaluatedInOrder(recipe.steps[1].effects)
    /\ ResultOfFirstFailure("effect_failed", recipe.steps[1].effects)

C20_Witness ==
  /\ opts.entry = "validateEffects"
  /\ pc = "validated"
  /\ opts.page
  /\ opts.currentUrl = Some(UrlB)
  /\ execLog = <<Evaluated(Check("min_items", SelLi \o <<"|", "x">>), TRUE),
                 Evaluated(Check("url_changed", UrlAx), FALSE)>>
  /\ runResult = Some(ValidationErr(
       StepValidationError("effect_failed", recipe.steps[1], Check("url_changed", UrlAx))))

\* ------------------------------------------------------------------------
\* Surfaces
\* ------------------------------------------------------------------------
\* the surface operations the step being taken appends to the log
SurfaceOpsNow == SubSeq(surfaceLog', Len(surfaceLog) + 1, Len(surfaceLog'))

\* the step being taken is a surface switch whose cookie hand-off failed
SyncFailedNow == SurfaceOpsNow # <<>> /\ SurfaceOpsNow[1] = "cookie_sync_failed"

\* the causes a browser step's own guards, action and effects fail with
OwnStepCauses ==
  {"guard_failed", "effect_failed", "selectors_failed", "no_selectors", "action_threw"}

\* C21: when the HTTP surface's cookies cannot be read or added to the
\* browser surface at a switch, the run goes on to release the HTTP surface
\* and, once that returned, to the browser step: the step is started on the
\* browser surface, and the run fails in that iteration only with the
\* release's error or with an error of the step's own guards, action or
\* effects, never with the hand-off's failure.
C21_CookieSyncBestEffort ==
  [][SyncFailedNow =>
       /\ Len(execLog') = Len(execLog) + 1
       /\ plan[1].steps[index].mode = "pw"
       /\ execLog'[Len(execLog')].id = plan[1].steps[index].id
       /\ IF SurfaceOpsNow = <<"cookie_sync_failed", "http_dispose">>
          THEN /\ httpContext' = "none"
               /\ \/ runResult' = None /\ execLog'[Len(execLog')].ok /\ index' = index + 1
                  \/ /\ runResult' # None
                     /\ ~execLog'[Len(execLog')].ok
                     /\ runResult'[1].error[1].cause \in OwnStepCauses
          ELSE /\ SurfaceOpsNow = <<"cookie_sync_failed">>
               /\ runResult' # None
               /\ runResult'[1].error[1].cause = "dispose_threw"]_vars

\* a run in which the hand-off failed, the HTTP surface was released and
\* the browser step then dispatched its action and succeeded
C21_Witness ==
  /\ pc = "loop"
  /\ ~opts.heal
  /\ runResult = None
  /\ Len(surfaceLog) >= 2
  /\ SubSeq(surfaceLog, Len(surfaceLog) - 1, Len(surfaceLog))
       = <<"cookie_sync_failed", "http_dispose">>
  /\ execLog # <<>>
  /\ execLog[Len(execLog)].ok
  /\ execLog[Len(execLog)].acted \notin {"none", "fetch"}

\* the number of HTTP surfaces that are live after the surface operations
\* of log, n being live before; releasing a released surface does nothing
RECURSIVE LiveHttpAfter(_, _)
LiveHttpAfter(log, n) ==
  IF log = <<>> THEN n
  ELSE LiveHttpAfter(Tail(log),
                     IF Head(log) = "http_new" THEN n + 1
                     ELSE IF Head(log) = "http_dispose" /\ n > 0 THEN n - 1
                     ELSE n)

LiveHttp == LiveHttpAfter(surfaceLog, 0)

\* every HTTP surface was created while none was live
NewOnlyAfterDispose ==
  \A i \in DOMAIN surfaceLog :
    surfaceLog[i] = "http_new" => LiveHttpAfter(SubSeq(surfaceLog, 1, i - 1), 0) = 0

Launches == Cardinality({i \in DOMAIN surfaceLog : surfaceLog[i] = "launch"})

\* the runner is between its launch and its finally block
Running == pc \in {"loop", "recording", "rerecord"}

hasPwStep == \E i \in DOMAIN plan[1].steps : plan[1].steps[i].mode = "pw"

\* the step being taken made a browser step act on the page or try a
\* candidate selector
BrowserStepActsNow ==
  \E i \in (Len(execLog) + 1)..Len(execLog') :
    \/ execLog'[i].acted \notin {"none", "fetch"}
    \/ execLog'[i].attempts # <<>>

\* C22 (as stated): at every point of a run exactly one browser surface
\* and at most one HTTP surface are live, an HTTP surface is created only
\* when none is live, and none is live while a browser step executes.
C22_OneBrowserAtMostOneHttp ==
  [][/\ Running' => browser' = "open" /\ Launches' = 1
     /\ LiveHttp' \in {0, 1}
     /\ NewOnlyAfterDispose'
     /\ BrowserStepActsNow => LiveHttp' = 0 /\ httpContext' = "none"]_vars

\* C22 (amended): at every point of a run at most one browser surface is
\* live, exactly one when the plan has a browser step and none when it has
\* not; at most one HTTP surface is live, an HTTP surface is created only
\* when none is live, and none is live while a browser step executes.
C22_BrowserIffPwStep ==
  [][/\ Launches' <= 1
     /\ Running' => /\ (browser' = "open") = hasPwStep'
                    /\ Launches' = (IF hasPwStep' THEN 1 ELSE 0)
     /\ LiveHttp' \in {0, 1}
     /\ NewOnlyAfterDispose'
     /\ BrowserStepActsNow => LiveHttp' = 0 /\ httpContext' = "none"]_vars

\* a healing run that created an HTTP surface, released it at the switch
\* and is executing re-captured steps on the browser surface
C22_Witness ==
  /\ opts.heal
  /\ pc = "rerecord"
  /\ browser = "open"
  /\ \E i, j \in DOMAIN surfaceLog :
       i < j /\ surfaceLog[i] = "http_new" /\ surfaceLog[j] = "http_dispose"
  /\ LiveHttp = 0
  /\ \E i \in DOMAIN execLog : execLog[i].origin # "plan" /\ execLog[i].acted \notin {"none", "fetch"}

\* the runner returned: its result is set and its finally block has run
RunnerReturned == runResult # None /\ pc # "cleanup"

\* every launch in the log is followed by a close
LaunchedClosed ==
  \A i \in DOMAIN surfaceLog :
    surfaceLog[i] = "launch" => \E j \in DOMAIN surfaceLog : j > i /\ surfaceLog[j] = "close"

EndsWith(kind) ==
  /\ pc' = "cleanup"
  /\ runResult' # None
  /\ ~runResult'[1].ok
  /\ runResult'[1].error[1].kind = kind
  /\ runResult'[1].error[1].stepId = plan[1].steps[index].id

\* the captured events a step is built from
Executable(event) ==
  \/ event.type = "navigation"
  \/ event.type \in {"click", "input"} /\ event.anchors # None

\* the run ended with a healing-fatal error
HealingFatal ==
  /\ runResult # None
  /\ ~runResult[1].ok
  /\ runResult[1].error[1].kind \in {"heal_record_failed", "re_record_failed"}

\* C24: when the operator's signal finds the capture empty or without a
\* step the classifier can build, the run returns heal_record_failed; when
\* a re-captured step fails it returns re_record_failed naming that step;
\* a re-captured step is run once, with no selector rediscovery and no new
\* capture; and after either error no step is started.
C24_HealingFatalEndsRun ==
  [][/\ (pc = "recording" /\ pc' # "recording"
           /\ (healRecordBuffer = <<>>
                 \/ \A i \in DOMAIN healRecordBuffer : ~Executable(healRecordBuffer[i])))
          => EndsWith("heal_record_failed") /\ execLog' = execLog
     /\ (pc = "rerecord" /\ execLog' # execLog)
          => /\ Len(execLog') = Len(execLog) + 1
             /\ execLog'[Len(execLog')].origin = "rerecorded"
             /\ execLog'[Len(execLog')].id = reNumberedSteps[reIndex].id
             /\ selectorPatches' = selectorPatches
             /\ healStats' = healStats
             /\ phase2Replacements' = phase2Replacements
             /\ pc' # "recording"
             /\ ~isRecording'
             /\ ~execLog'[Len(execLog')].ok
                  => /\ EndsWith("re_record_failed")
                     /\ runResult'[1].error[1].reRecordedStepId = reNumberedSteps[reIndex].id
     /\ HealingFatal => execLog' = execLog /\ runResult' = runResult
                          /\ pc' \notin {"loop", "recording", "rerecord"}]_vars

\* a run that returned heal_record_failed because the capture held events
\* but none the classifier builds a step from
C24_Witness ==
  /\ HealingFatal
  /\ runResult[1].error[1].kind = "heal_record_failed"
  /\ healRecordBuffer # <<>>
  /\ execLog # <<>>
  /\ ~execLog[Len(execLog)].ok
  /\ execLog[Len(execLog)].origin = "plan"

\* ------------------------------------------------------------------------
\* The run command's JSON record
\* ------------------------------------------------------------------------
\* an invocation of the run command under options.json has returned
JsonRunReturned == pc = "done" /\ IsCommand /\ opts.json /\ ~opts.planOnly /\ cmdResult # None

\* the runner was started: the failure, if any, is an execution failure
ExecutionStarted == runResult # None \/ saveCalls # <<>>

\* the id of the step a failed run names; none when the runner failed
\* outside every step
FailingStepId ==
  IF runResult[1].error[1].kind = "re_record_failed"
  THEN runResult[1].error[1].reRecordedStepId
  ELSE runResult[1].error[1].stepId

\* C25: under options.json every invocation of the run command writes
\* exactly one record, whether it failed to load the recipe, to parse the
\* caller's variables, to build the plan, to resolve every variable, to
\* execute, to save, or succeeded; the record's ok is the command's result,
\* its phase is "plan" when the runner was never started and "execute"
\* otherwise, and on an execution failure its error string starts with the
\* failing step's id.
C25_OneFinalJsonRecord ==
  JsonRunReturned =>
    /\ Len(output) = 1
    /\ output[1].ok = cmdResult[1].ok
    /\ output[1].phase = (IF ExecutionStarted THEN "execute" ELSE "plan")
    /\ (runResult # None /\ ~runResult[1].ok)
         => /\ FailingStepId # <<>>
            /\ StartsWith(output[1].message, FailingStepId)

\* ------------------------------------------------------------------------
\* Download path allocation
\* ------------------------------------------------------------------------
\* the position of path's first entry in the directory, 0 when it has none
EntryOf(path) ==
  IF InDir(saveCalls, path)
  THEN CHOOSE i \in DOMAIN saveCalls :
         saveCalls[i].path = path /\ \A j \in 1..(i - 1) : saveCalls[j].path # path
  ELSE 0

Returned(c) == calls[c].result # None
ReturnedPath(c) == Returned(c) /\ calls[c].result[1].ok

\* C26: a path ensureUniquePathResult returns is one its own exclusive
\* open created, so it did not exist before and no other caller or process
\* has an entry for it; every candidate before it in the order name,
\* name-1, name-2, ... existed when the path was created; no two callers
\* hold the same path; and a caller that found every candidate taken
\* returns an error and created nothing.
C26_ExclusiveFirstFreePath ==
  \A c \in 1..Callers :
    /\ ReturnedPath(c) =>
         /\ calls[c].result[1].value = CandidatePath(calls[c].parsed, calls[c].count)
         /\ Cardinality({i \in DOMAIN saveCalls :
                           saveCalls[i].path = calls[c].result[1].value}) = 1
         /\ saveCalls[EntryOf(calls[c].result[1].value)].by = c
         /\ \A n \in 0..(calls[c].count - 1) :
              /\ EntryOf(CandidatePath(calls[c].parsed, n)) > 0
              /\ EntryOf(CandidatePath(calls[c].parsed, n))
                   < EntryOf(calls[c].result[1].value)
         /\ \A d \in 1..Callers :
              (d # c /\ ReturnedPath(d)) => calls[d].result[1].value # calls[c].result[1].value
    /\ (Returned(c) /\ ~calls[c].result[1].ok) =>
         /\ \A i \in DOMAIN saveCalls : saveCalls[i].by # c
         /\ calls[c].result[1].error = "no_unique_path" =>
              /\ calls[c].count = MAX_UNIQUE_PATH_ATTEMPTS + 1
              /\ \A n \in 0..MAX_UNIQUE_PATH_ATTEMPTS :
                   InDir(saveCalls, CandidatePath(calls[c].parsed, n))

\* two callers given the same target both returned: the second with the
\* target itself, the first, whose open found it taken, with the next
\* candidate
C26_Witness ==
  /\ calls[1].parsed = calls[2].parsed
  /\ ReturnedPath(1)
  /\ ReturnedPath(2)
  /\ calls[1].count = 1
  /\ calls[2].count = 0
  /\ EntryOf(calls[2].result[1].value) < EntryOf(calls[1].result[1].value)

\* ------------------------------------------------------------------------
\* Fetch requests and download names
\* ------------------------------------------------------------------------
\* the name by the stated priority: filename* decoded, else the quoted
\* filename, else the bare filename, else the step id with the extension
\* of the content type
NameByHeaderThenStepId(step, response) ==
  IF response.contentDisposition = None
  THEN step.id \o extensionFromContentType(response.contentType)
  ELSE IF FirstCapture(response.contentDisposition[1], FilenameStarAt) # None
            /\ decodeURIComponent(Unquote(Trim(
                 FirstCapture(response.contentDisposition[1], FilenameStarAt)[1]))).ok
  THEN decodeURIComponent(Unquote(Trim(
         FirstCapture(response.contentDisposition[1], FilenameStarAt)[1]))).value
  ELSE IF FirstCapture(response.contentDisposition[1], FilenameQuotedAt) # None
  THEN FirstCapture(response.contentDisposition[1], FilenameQuotedAt)[1]
  ELSE IF FirstCapture(response.contentDisposition[1], FilenameBareAt) # None
  THEN Trim(FirstCapture(response.contentDisposition[1], FilenameBareAt)[1])
  ELSE step.id \o extensionFromContentType(response.contentType)

\* C27: a download is saved under the name taken, in this order, from the
\* percent-decoded filename* parameter, the quoted filename parameter, the
\* bare filename parameter, or else the step id with the extension derived
\* from the content type, made safe for the file system; nothing else
\* supplies the name.
C27_FilenameByHeaderThenStepId ==
  pc = "saved" =>
    saveCalls = <<sanitizeFilename(NameByHeaderThenStepId(recipe.steps[1], execLog[1]))>>

\* a method as the stated normalisation gives it: upper-cased, without
\* surrounding blanks, GET when absent or empty
IsNormalized(method, written) ==
  /\ method # <<>>
  /\ \A i \in DOMAIN method : method[i] # " " /\ method[i] \notin Range(Letters)
  /\ IF written = None \/ \A i \in DOMAIN written[1] : written[1][i] = " "
     THEN method = <<"G", "E", "T">>
     ELSE \E a, b \in 0..Len(written[1]) :
            /\ \A i \in 1..a : written[1][i] = " "
            /\ \A i \in (Len(written[1]) - b + 1)..Len(written[1]) : written[1][i] = " "
            /\ Len(method) = Len(written[1]) - a - b
            /\ \A i \in DOMAIN method : method[i] = UpperChar(written[1][a + i])

\* C28: the request of a fetch step carries the step's method trimmed and
\* upper-cased, GET when the step has none or an empty one, and carries a
\* body only when that method is neither GET nor HEAD: the body of a step
\* whose method is GET or HEAD is not sent.
C28_MethodNormalizedBodyOnlyIfAllowed ==
  pc # "fetch" =>
    /\ Len(calls) = 1
    /\ IsNormalized(calls[1].method, recipe.steps[1].method)
    /\ calls[1].data = (IF calls[1].method \in {<<"G", "E", "T">>, <<"H", "E", "A", "D">>}
                        THEN None ELSE recipe.steps[1].body)


\* a step on the HTTP surface with an action only the browser can play
HttpBrowserAction(step) == step.mode = "http" /\ step.action \in BrowserOnlyActions
HasHttpBrowserAction(steps) == \E i \in 1..Len(steps) : HttpBrowserAction(steps[i])
Answered == opts.entry = "compile" /\ pc = "answered"
Compiled == opts.entry = "compile" /\ mergedSteps # None

\* C29: no step with mode http and action goto, click, fill or press is
\* accepted or produced: a submitted recipe containing such a step is
\* answered with "invalid recipe payload" and never handed to the store,
\* and every step compiled from recorded events that has mode http has
\* action fetch.
C29_NoHttpBrowserAction ==
  /\ (Answered /\ HasHttpBrowserAction(recipe.steps)
        => cmdResult = Some(CmdErr("invalid recipe payload")) /\ saveCalls = <<>>)
  /\ (Compiled
        => \A i \in 1..Len(mergedSteps[1]) :
             mergedSteps[1][i].mode = "http" => mergedSteps[1][i].action = "fetch")

\* a recipe with a click on the HTTP surface was rejected, and a recording
\* with a navigation and a request was compiled to a browser step and an
\* HTTP fetch step
C29_Witness ==
  /\ Answered
  /\ \E i \in 1..Len(recipe.steps) :
       recipe.steps[i].mode = "http" /\ recipe.steps[i].action = "click"
  /\ cmdResult = Some(CmdErr("invalid recipe payload"))
  /\ Compiled
  /\ \E i, j \in 1..Len(mergedSteps[1]) :
       /\ mergedSteps[1][i].mode = "pw"
       /\ mergedSteps[1][j].mode = "http" /\ mergedSteps[1][j].action = "fetch"


\* the guard does not hold at the URL the step is checked against; a
\* text counts as missing when it does not appear for as long as the
\* runner waits for it (the HTTP surface has no page and never waits)
GuardFails(guard, step, url, env, heal) ==
  IF guard.type = "url_is" THEN ~matchesUrl(guard.value, url)
  ELSE IF guard.type = "url_not" THEN matchesUrl(guard.value, url)
  ELSE step.mode = "pw" /\ ~env.guardText /\ (heal => ~env.guardTextLate)

\* a failing guard that hostname-level relaxation does not cover
FailsUnwaivably(guard, step, url, env, heal) ==
  /\ GuardFails(guard, step, url, env, heal)
  /\ (guard.type = "url_is" => ~guardHostnameMatches(guard.value, url))

StepReturned == opts.entry = "step" /\ pc = "returned"
RefusedAtGuards ==
  execLog[1].error = Some(stepExecutionError(recipe.steps[1].id, "guard_failed"))
SomeGuard(P(_)) == \E i \in 1..Len(recipe.steps[1].guards) : P(recipe.steps[1].guards[i])

\* C30: hostname-level relaxation waives only url_is guards whose hostname
\* (trailing wildcard stripped) equals the hostname of the current URL, and
\* only under healing: a browser or HTTP step with a failing url_not
\* guard, a failing text_visible guard or a failing url_is guard on
\* another hostname is refused at its guards, and without healing a step
\* with any failing guard is refused.
C30_OnlySameHostUrlIsWaived ==
  StepReturned =>
    /\ (SomeGuard(LAMBDA g : FailsUnwaivably(g, recipe.steps[1], livePageUrl,
                                             execLog[1].env, opts.heal))
          => RefusedAtGuards)
    /\ (~opts.heal /\ SomeGuard(LAMBDA g : GuardFails(g, recipe.steps[1], livePageUrl,
                                                      execLog[1].env, FALSE))
          => RefusedAtGuards)


\* the healing runner is about to run the original step at index
HealAt == opts.heal /\ pc = "loop" /\ plan # None /\ index <= Len(plan[1].steps)
HttpStepNow == HealAt /\ plan[1].steps[index].mode = "http"
\* the step at index was started and failed in this transition
FailedNow ==
  /\ Len(execLog') = Len(execLog) + 1
  /\ execLog'[Len(execLog')].origin = "plan"
  /\ ~execLog'[Len(execLog')].ok
HealingUntouched == UNCHANGED <<selectorPatches, phase2Replacements, healStats>>

\* C31: with healing enabled, a failing HTTP-mode original step (request
\* error, download failure, effect mismatch, guard failure that is not
\* relaxed) ends the run at once with that step's error: the runner never
\* waits for the operator on an HTTP step, runs no retry, and records no
\* selector patch and no replacement for it.
C31_HttpFailureHaltsWithoutHealing ==
  [][HttpStepNow /\ FailedNow
       => /\ pc' = "cleanup"
          /\ runResult' # None /\ ~runResult'[1].ok
          /\ runResult'[1].error[1].kind = "step_execution_failed"
          /\ runResult'[1].error[1].stepId = plan[1].steps[index].id
          /\ ~isRecording'
          /\ HealingUntouched]_vars

\* a healing run whose second step, an HTTP step, failed after its request
\* was sent, the first step having run in the browser
C31_Witness ==
  /\ opts.heal
  /\ pc = "cleanup"
  /\ runResult # None /\ ~runResult[1].ok
  /\ Len(execLog) = 2
  /\ execLog[1].ok
  /\ plan[1].steps[1].mode = "pw"
  /\ plan[1].steps[2].mode = "http"
  /\ ~execLog[2].ok /\ execLog[2].acted = "fetch"


\* the entries the transition adds to the log, the last of them and the
\* one before it
LogGrew == Len(execLog') > Len(execLog)
LastEntry == execLog'[Len(execLog')]
EntryBeforeLast == execLog'[Len(execLog') - 1]
RetriedNow == LogGrew /\ LastEntry.origin = "retry"
\* the selectors the retry's step has in front of the first run's
DiscoveredSelectors ==
  SubSeq(LastEntry.selectorVariants, 1,
         Len(LastEntry.selectorVariants) - Len(EntryBeforeLast.selectorVariants))

\* C32: a Phase-1 retry happens only right after the first execution of
\* the same click or fill step failed, and runs that step with the
\* discovered selector before all original candidates; a selector patch is
\* recorded for the step id and phase1Healed incremented exactly when the
\* retry (with its effects) succeeded; a failed retry records nothing and
\* the runner goes on to Phase 2.
C32_Phase1RetryAndPatch ==
  [][/\ RetriedNow
          => /\ Len(execLog') = Len(execLog) + 2
             /\ EntryBeforeLast.origin = "plan" /\ ~EntryBeforeLast.ok
             /\ EntryBeforeLast.id = LastEntry.id
             /\ EntryBeforeLast.index = LastEntry.index
             /\ LastEntry.action \in {"click", "fill"}
             /\ \E h \in HealOutcomes :
                  /\ h.healed
                  /\ LastEntry.selectorVariants
                       = h.newSelectors \o EntryBeforeLast.selectorVariants
     /\ (selectorPatches' # selectorPatches
           \/ healStats'.phase1Healed # healStats.phase1Healed)
          => /\ RetriedNow /\ LastEntry.ok
     /\ RetriedNow /\ LastEntry.ok
          => /\ selectorPatches'
                  = MapPut(selectorPatches, LastEntry.id, DiscoveredSelectors)
             /\ LastEntry.id \notin DOMAIN selectorPatches
             /\ healStats' = [healStats EXCEPT !.phase1Healed = healStats.phase1Healed + 1]
             /\ pc' = "loop" /\ index' = index + 1
     /\ RetriedNow /\ ~LastEntry.ok
          => /\ UNCHANGED <<selectorPatches, healStats>>
             /\ pc' = "recording" /\ isRecording']_vars

\* a click whose first run found no element was retried with the
\* rediscovered selector in front, succeeded, and has its patch recorded
C32_Witness ==
  /\ opts.heal
  /\ \E k \in 2..Len(execLog) :
       /\ execLog[k].origin = "retry" /\ execLog[k].ok
       /\ execLog[k].action = "click"
       /\ execLog[k].selectorVariants = <<SelH>> \o execLog[k - 1].selectorVariants
       /\ execLog[k].id \in DOMAIN selectorPatches
       /\ selectorPatches[execLog[k].id] = <<SelH>>
  /\ healStats.phase1Healed = 1


\* the heuristic strategies in the order of the rediscovery
StrategyRank(strategy) ==
  CASE strategy = "id" -> 1
    [] strategy = "placeholder-exact" -> 2
    [] strategy = "placeholder-partial" -> 3
    [] strategy = "name-attr" -> 4
    [] strategy = "text-content" -> 5
    [] OTHER -> 6
Rediscovering == opts.entry = "healSelector" /\ pc # "heuristic"
IsProbe(k) == calls[k].fn = "isLocatable"
HeuristicProbe(k) == IsProbe(k) /\ calls[k].name # "llm"
LlmProbe(k) == IsProbe(k) /\ calls[k].name = "llm"
Prompted == \E k \in DOMAIN calls : calls[k].fn = "runLocalClaude"
PromptIndex == CHOOSE k \in DOMAIN calls : calls[k].fn = "runLocalClaude"
\* the strategies the hints of the step give a candidate for
StrategiesOf(step) ==
  With(collectHints(step.selectorVariants), LAMBDA h :
    {s \in {"id"} : h.id # None}
    \cup {s \in {"placeholder-exact"} : h.placeholder # None}
    \cup {s \in {"placeholder-partial"} :
            h.placeholder # None /\ Len(FirstWord(h.placeholder[1])) >= 3}
    \cup {s \in {"name-attr"} : h.name # None}
    \cup {s \in {"text-content"} : h.text # None /\ step.action = "click"})
ProbedStrategies == {calls[k].name : k \in {j \in DOMAIN calls : HeuristicProbe(j)}}

\* C33: the heuristic candidates are probed in the order id, exact
\* placeholder, partial placeholder, name attribute, text content (text
\* only for click steps) and the first that locates an element is
\* returned; the prompt collaborator is consulted only when no heuristic
\* candidate located one, its suggestions are probed in the order given,
\* and a healed result carries exactly one new selector.
C33_RediscoveryOrder ==
  Rediscovering =>
    /\ \A i, j \in DOMAIN calls :
         /\ (HeuristicProbe(i) /\ HeuristicProbe(j) /\ i < j
               => StrategyRank(calls[i].name) < StrategyRank(calls[j].name))
         /\ (HeuristicProbe(i) /\ ~HeuristicProbe(j) => i < j)
         /\ (LlmProbe(i) => Prompted /\ PromptIndex < i)
    /\ \A k \in DOMAIN calls :
         /\ (IsProbe(k) => calls[k].outcome = (calls[k].arg \in execLog[1].page))
         /\ (HeuristicProbe(k) => calls[k].name \in StrategiesOf(recipe.steps[1]))
         /\ (calls[k].name = "text-content" => recipe.steps[1].action = "click")
         /\ (IsProbe(k) /\ calls[k].outcome
               => /\ k = Len(calls)
                  /\ cmdResult # None /\ cmdResult[1].healed
                  /\ cmdResult[1].newSelectors = <<calls[k].arg>>
                  /\ cmdResult[1].strategy = calls[k].name)
    /\ \A s \in StrategiesOf(recipe.steps[1]) :
         s \in ProbedStrategies
           \/ \E k \in DOMAIN calls :
                HeuristicProbe(k) /\ calls[k].outcome
                  /\ StrategyRank(calls[k].name) < StrategyRank(s)
    /\ (Prompted => \A k \in DOMAIN calls : HeuristicProbe(k) => ~calls[k].outcome)
    /\ (Prompted /\ execLog[1].response # None
          => \A k \in DOMAIN calls :
               LlmProbe(k)
                 => /\ k - PromptIndex
                         <= Len(parseSelectorsFromLlmResponse(execLog[1].response[1]))
                    /\ calls[k].arg
                         = parseSelectorsFromLlmResponse(execLog[1].response[1])
                             [k - PromptIndex])
    /\ (cmdResult # None
          => /\ cmdResult[1].healed
                  => /\ Len(cmdResult[1].newSelectors) = 1
                     /\ calls # <<>> /\ calls[Len(calls)].outcome
                     /\ IsProbe(Len(calls))
             /\ ~cmdResult[1].healed => \A k \in DOMAIN calls : IsProbe(k) => ~calls[k].outcome)

\* the id and the two placeholder candidates located nothing, the prompt
\* collaborator was asked, its first suggestion located nothing and its
\* second one healed the step
C33_Witness ==
  /\ Rediscovering
  /\ pc = "returned"
  /\ Len(calls) = 6
  /\ calls[1].name = "id" /\ calls[2].name = "placeholder-exact"
  /\ calls[3].name = "placeholder-partial"
  /\ calls[4].fn = "runLocalClaude"
  /\ calls[5].arg = <<"#", "h">> /\ ~calls[5].outcome
  /\ calls[6].arg = <<".", "b">> /\ calls[6].outcome
  /\ cmdResult[1].healed /\ cmdResult[1].newSelectors = <<<<".", "b">>>>


PwStepNow == HealAt /\ plan[1].steps[index].mode = "pw"
Suspended == opts.heal /\ pc = "recording"
Released == Suspended /\ pc' = "rerecord"
HealedId(stepId, n) == stepId \o <<"-", "h", "e", "a", "l", "e", "d", "-">> \o NatToStr(n)
\* the event a re-captured step was made of
MadeOf(step, event) ==
  \/ step.action = "goto" /\ event.type = "navigation" /\ step.url = Some(event.url)
  \/ step.action = "click" /\ event.type = "click"
       /\ event.anchors = Some(step.selectorVariants)
  \/ step.action = "fill" /\ event.type = "input"
       /\ event.anchors = Some(step.selectorVariants)
\* the steps follow the order in which their events were captured
InCaptureOrder(steps, buffer) ==
  \E f \in [1..Len(steps) -> 1..Len(buffer)] :
    /\ \A i, j \in 1..Len(steps) : i < j => f[i] < f[j]
    /\ \A i \in 1..Len(steps) : MadeOf(steps[i], buffer[f[i]])

\* C34: a browser-mode original step that fails in a healing run, guard
\* relaxation and Phase 1 not having recovered it, suspends the run; no
\* step runs and no surface changes until the operator's signal; at the
\* signal the captured steps get the ids <failedStepId>-healed-1..n in
\* capture order and one replacement keyed by the failed step's id is
\* recorded; the new steps then run at once, in that order, on the same
\* surfaces, and the tracked URL follows them.
C34_SuspendRenumberReplay ==
  [][/\ PwStepNow /\ LogGrew /\ ~LastEntry.ok
          => pc' = "recording" /\ isRecording' /\ healRecordBuffer' = <<>>
               /\ runResult' = None /\ index' = index
     /\ Suspended
          => /\ UNCHANGED <<execLog, surfaceVars, index, pageUrl, httpUrl, previousStepMode>>
             /\ pc' \in {"recording", "rerecord", "cleanup"}
     /\ Released
          => /\ reNumberedSteps' # <<>>
             /\ \A k \in 1..Len(reNumberedSteps') :
                  reNumberedSteps'[k].id = HealedId(plan[1].steps[index].id, k)
             /\ InCaptureOrder(reNumberedSteps', healRecordBuffer)
             /\ phase2Replacements'
                  = Append(phase2Replacements,
                           [replacedFromStepId |-> plan[1].steps[index].id,
                            newSteps |-> reNumberedSteps'])
             /\ reIndex' = 1
     /\ opts.heal /\ pc = "rerecord"
          => /\ LogGrew
                  => /\ Len(execLog') = Len(execLog) + 1
                     /\ LastEntry.origin = "rerecorded"
                     /\ LastEntry.id = reNumberedSteps[reIndex].id
                     /\ LastEntry.id = HealedId(plan[1].steps[index].id, reIndex)
                     /\ browser' = browser /\ browser = "open"
                     /\ (LastEntry.ok
                           => /\ pageUrl' = Some(livePageUrl')
                              /\ previousStepMode' = "pw"
                              /\ IF reIndex < Len(reNumberedSteps)
                                 THEN reIndex' = reIndex + 1 /\ pc' = "rerecord"
                                 ELSE pc' = "loop" /\ index' = index + 1)
             /\ UNCHANGED <<reNumberedSteps, phase2Replacements>>]_vars

\* the second step of the plan failed, the operator clicked and navigated
\* and released the run, and both re-captured steps ran in that order
C34_Witness ==
  /\ opts.heal
  /\ Len(execLog) >= 4
  /\ \E k \in 2..(Len(execLog) - 2) :
       /\ ~execLog[k].ok /\ execLog[k].id = <<"s", "2">>
       /\ execLog[k + 1].origin = "rerecorded" /\ execLog[k + 1].ok
       /\ execLog[k + 1].id = <<"s", "2", "-", "h", "e", "a", "l", "e", "d", "-", "1">>
       /\ execLog[k + 1].action = "click"
       /\ execLog[k + 2].origin = "rerecorded" /\ execLog[k + 2].ok
       /\ execLog[k + 2].id = <<"s", "2", "-", "h", "e", "a", "l", "e", "d", "-", "2">>
       /\ execLog[k + 2].action = "goto"
  /\ Len(phase2Replacements) = 1
  /\ phase2Replacements[1].replacedFromStepId = <<"s", "2">>
  /\ pageUrl = Some(livePageUrl)
  /\ pc = "loop"


\* ------------------------------------------------------------------------
\* C35
\* the runner waits for the operator's continuation signal
Blocked == pc = "recording"
\* the suspension starts: the runner arms the capture
Arms == ~Blocked /\ Blocked'
\* the operator's continuation signal
Releases == Blocked /\ ~Blocked'
\* a recording callback ran: the buffer is the old one, or the old one and one event
CallbackRan ==
  \/ healRecordBuffer' = healRecordBuffer
  \/ \E event \in HealEvents : healRecordBuffer' = Append(healRecordBuffer, event)
\* the classifier was handed exactly the events of the buffer
HandedBuffer ==
  \/ /\ runResult' # None
     /\ runResult'[1].ok = FALSE
     /\ Phase2Steps(plan[1].steps[index].id, healRecordBuffer) = <<>>
  \/ /\ runResult' = None
     /\ reNumberedSteps' = Phase2Steps(plan[1].steps[index].id, healRecordBuffer)

RanOn(k, mode) == execLog[k].ran /\ execLog[k].mode = mode
\* the k-th step follows a step of the given mode
Follows(k, mode) == k > 1 /\ execLog[k - 1].mode = mode
\* a synchronisation after the m-th step and up to the k-th failed
SyncFailedBetween(m, k) ==
  \E j \in (m + 1)..k : \E i \in 1..Len(execLog[j].surface) :
    execLog[j].surface[i] = "cookie_sync_failed"
\* the cookies offered to the browser, then the HTTP surface released
OfferedAndReleased(ops) ==
  ops \in {<<"cookie_sync", "http_dispose">>, <<"cookie_sync_failed", "http_dispose">>}

\* C36: in every alternation of step modes, an HTTP step after an HTTP step
\* runs on the surface that is there (no surface operation is made); an HTTP
\* step after a browser step runs on a surface created for it, holding the
\* browser's cookies of that moment; a browser step after an HTTP step runs
\* after the HTTP surface's cookies were offered to the browser and the
\* surface was released, in this order; and a cookie obtained by a step on
\* one surface is among the cookies a later step sees on the other surface,
\* unless a synchronisation in between failed.
C36_SessionKeptAcrossSwitches ==
  \A k \in 1..Len(execLog) :
    /\ (RanOn(k, "http") /\ Follows(k, "http")) => execLog[k].surface = <<>>
    /\ (RanOn(k, "http") /\ Follows(k, "pw")) =>
         (/\ execLog[k].surface = <<"http_new">>
          /\ VisibleAt(execLog, k) = JarsAfter(execLog, k - 1).browser)
    /\ (RanOn(k, "pw") /\ Follows(k, "http")) => OfferedAndReleased(execLog[k].surface)
    /\ \A m \in 1..(k - 1) :
         (execLog[k].ran /\ execLog[m].cookie /\ execLog[m].mode # execLog[k].mode
            /\ ~SyncFailedBetween(m, k))
           => m \in VisibleAt(execLog, k)

\* a browser step, an HTTP step and a browser step ran, the first two obtained a
\* cookie each: the HTTP step saw the browser's cookie and the last step sees both
C36_Witness ==
  /\ Len(execLog) = 3
  /\ RanOn(1, "pw") /\ RanOn(2, "http") /\ RanOn(3, "pw")
  /\ execLog[1].cookie /\ execLog[2].cookie
  /\ execLog[3].surface = <<"cookie_sync", "http_dispose">>
  /\ VisibleAt(execLog, 2) = {1}
  /\ VisibleAt(execLog, 3) = {1, 2}


\* ------------------------------------------------------------------------
\* C37
\* the k-th step of the session's log is an HTTP step whose guards were judged
GuardsJudged(k) ==
  /\ execLog[k].mode = "http"
  /\ execLog[k].error # None =>
       execLog[k].error[1].cause \notin {"dispose_threw", "context_threw"}
\* the k-th step of the session's log was refused at its guards
RefusedAtGuard(k) ==
  execLog[k].error = Some(stepExecutionError(execLog[k].id, "guard_failed"))
\* the guards of the k-th step hold at the URL
GuardsHoldAt(k, url) ==
  validateGuards([guards |-> execLog[k].guards], GuardCtx(url, FALSE, execLog[k].env))

\* C37: the guards of an HTTP step are judged at the URL that the step
\* executed just before it recorded, whichever surface that step ran on: the
\* step is refused at its guards exactly when they fail at that URL.
C37_HttpGuardsAtLastRecordedUrl ==
  \A k \in 2..Len(execLog) :
    GuardsJudged(k) => (RefusedAtGuard(k) <=> ~GuardsHoldAt(k, execLog[k - 1].recorded))

\* the guards of an HTTP step are judged at the browser's URL when the runner has
\* one, else at the URL of the last HTTP response
HttpGuardsAtBrowserUrlFirst ==
  \A k \in 1..Len(execLog) :
    GuardsJudged(k) =>
      (RefusedAtGuard(k) <=> ~GuardsHoldAt(k, OrElse(execLog[k].pageUrl, execLog[k].httpUrl)))


\* ------------------------------------------------------------------------
\* C38
\* the effects of the current fetch step are being validated
ValidatingEffects == pc = "effects" /\ pc' # "effects"
\* the current fetch step and its response make a download
QualifiesAsDownload == shouldSave(recipe.steps[index], calls[1])
\* the download directory holds a file with the body, written by the step
WrittenBy(dir, step) == \E i \in DOMAIN dir : dir[i].by = step /\ dir[i].body
\* every file of the directory is still there, as it was
FilesKept == \A i \in DOMAIN saveCalls : i \in DOMAIN saveCalls' /\ saveCalls'[i] = saveCalls[i]
\* the run failed on the effects of the step
FailedOnEffects(result, step) ==
  result = Some(RunErr(stepExecutionError(recipe.steps[step].id, "effect_failed")))

\* C38: when the effects of a fetch step that makes a download are
\* validated, the response body is already in a file of the download
\* directory; when the validation fails, the step's error becomes the run's
\* result and no further step is started, and the file stays; and no step of
\* the run, the failure and the finally block included, removes or changes
\* a file that is in the directory.
C38_DownloadWrittenBeforeEffectsAndKept ==
  [][/\ (ValidatingEffects /\ QualifiesAsDownload) => WrittenBy(saveCalls, index)
     /\ (ValidatingEffects /\ pc' = "finally") =>
          (/\ FailedOnEffects(runResult', index)
           /\ index' = index
           /\ QualifiesAsDownload => WrittenBy(saveCalls', index))
     /\ (pc = "finally" /\ runResult # None /\ ~runResult[1].ok) => pc' = "returned"
     /\ FilesKept]_vars

\* the run has returned the failure of the second step's effects; the files that
\* the first and the second step wrote are both in the download directory
C38_Witness ==
  /\ pc = "returned"
  /\ Len(recipe.steps) = 2
  /\ index = 2
  /\ FailedOnEffects(runResult, 2)
  /\ Len(saveCalls) = 2
  /\ WrittenBy(saveCalls, 1)
  /\ WrittenBy(saveCalls, 2)


\* ------------------------------------------------------------------------
\* C39
\* the run re-captured the step at position i of the plan
ReCapturedAt(i) ==
  \E k \in 1..Len(execLog) : execLog[k].origin = "rerecorded" /\ execLog[k].index = i
\* the steps re-captured for position i: the replacements are recorded in
\* the order of the positions
NewStepsAt(i) ==
  phase2Replacements[Cardinality({j \in 1..i : ReCapturedAt(j)})].newSteps
\* what the saved recipe holds in the place of the original step at
\* position i: the steps re-captured for it, else the step, patched or not
PlaceOf(i, patchedSteps) == IF ReCapturedAt(i) THEN NewStepsAt(i) ELSE <<patchedSteps[i]>>
\* the places of the original steps from the i-th on, in their order
RECURSIVE PlacesFrom(_, _)
PlacesFrom(patchedSteps, i) ==
  IF i > Len(patchedSteps) THEN <<>>
  ELSE PlaceOf(i, patchedSteps) \o PlacesFrom(patchedSteps, i + 1)
\* no step id has both a selector patch and a replacement
NoPatchedReplacement ==
  \A k \in 1..Len(phase2Replacements) :
    phase2Replacements[k].replacedFromStepId \notin DOMAIN selectorPatches

\* C39: during a run no step id has both a selector patch and a Phase-2
\* replacement.  The steps of the saved recipe are the original steps in their
\* order, each one either kept (with its selector patch merged, if it has
\* one) or, if the run re-captured it, replaced in its place by its new steps;
\* and the same list results when the replacements are spliced into the
\* unpatched steps and the selector patches are merged afterwards.
C39_ReplacementsKeepPlaceAndOrder ==
  /\ NoPatchedReplacement
  /\ saveCalls # <<>> =>
       /\ saveCalls[1].steps =
            PlacesFrom(MergeSelectorPatches(recipe.steps, selectorPatches).mergedSteps, 1)
       /\ saveCalls[1].steps =
            MergeSelectorPatches(ApplyReplacements(recipe.steps, phase2Replacements, 1),
                                 selectorPatches).mergedSteps


\* ------------------------------------------------------------------------
\* C40
\* the healing runner returned an error
HealRunFailed == opts.heal /\ runResult # None /\ ~runResult[1].ok

\* C40: once a healing-enabled run has returned an error, whatever it healed
\* before, no step of the command hands a recipe to saveRecipeResult or
\* changes the stored recipe or builds a merged step list, and the record
\* the command writes carries the recipe's unchanged version and ok = false.
C40_FailedHealingRunSavesNothing ==
  [][HealRunFailed =>
       /\ saveCalls' = <<>>
       /\ recipe' = recipe
       /\ mergedSteps' = None
       /\ recipe'.version = 1
       /\ \A i \in 1..Len(output') : output'[i].version = recipe.version /\ ~output'[i].ok
       /\ cmdResult' # None => ~cmdResult'[1].ok]_vars

\* the command has ended after a run in which the first step was re-captured
\* and the second, an HTTP step, failed: nothing was saved
C40_Witness ==
  /\ pc = "done"
  /\ HealRunFailed
  /\ Len(phase2Replacements) = 1
  /\ healStats.phase2ReRecorded = 1
  /\ runResult[1].error[1].kind = "step_execution_failed"
  /\ runResult[1].error[1].stepId = <<"s", "2">>
  /\ recipe.steps[2].mode = "http"
  /\ saveCalls = <<>>
  /\ recipe.version = 1

====
